---- MODULE Spec2Model ----
(***************************************************************************)
(* image-lite: the quality rule engine, the error recovery and resume      *)
(* engine and the batch orchestration loop.                                *)
(*                                                                         *)
(*   SpecRecovery   ErrorRecoveryManager.processWithRecovery with the      *)
(*                  ErrorLogger it writes to.                              *)
(*   Spec           ImageOptimizerApp.processImages driving the optimizer, *)
(*                  the checkpoint store and the error log over one or     *)
(*                  more process invocations.                              *)
(*   SpecPaths      the same loop over one input of every kind under every *)
(*                  formats/thumbnail configuration.                       *)
(*   SpecQuality    the same loop with quality rules configured.           *)
(*   SpecRules      QualityRulesEngine: its constructor and one call of    *)
(*                  getQualityForImage.                                    *)
(***************************************************************************)
EXTENDS Integers, Sequences, FiniteSets, TLC

\* ------------------------------------------------------------------------
\* Bounds of the model
\* ------------------------------------------------------------------------
MaxRetriesOpt == 3
MaxCalls == 2
MaxFiles == 3
MaxRuns == 2
\* the rule engine: the length of the configured rule list, the largest size
\* bound of a rule, the number of literal characters of the longest pattern
MaxRules == 2
MaxDim == 2
LongPatternLen == 70
\* the number of calls made on one checkpoint file, the number of events the
\* watcher delivers
MaxOps == 5
MaxEvents == 3
CadenceFiles == 11

\* ------------------------------------------------------------------------
\* Program constants
\* ------------------------------------------------------------------------
DefaultMaxRetries == 3
DefaultRetryDelay == 1000

\* the allow-list of processWithRecovery
retryableErrors == {"ENOENT", "EBUSY", "ETIMEDOUT", "ECONNRESET", "ENOTFOUND"}

\* error codes an operation is made to fail with; "undefined" is an Error
\* without a code
ErrorCodes == retryableErrors \cup {"EINVAL", "undefined"}

\* an error object: its code and whether its message contains 'LFS'
ErrorObjects == [code : ErrorCodes, lfsMessage : BOOLEAN]

\* the value of a variable that holds no error (lastError before any failure)
NoError == [code |-> "(no error)", lfsMessage |-> FALSE]

\* an optional value: <<>> is undefined, <<v>> is v
Undefined == <<>>
Some(v) == <<v>>

\* values handed to the constructor
MaxRetriesOptions == {Undefined} \cup {Some(n) : n \in -1 .. MaxRetriesOpt}
RetryDelayOptions == {Undefined, Some(0), Some(50)}
ExponentialBackoffOptions == {Undefined, Some(TRUE), Some(FALSE)}
ContinueOnErrorOptions == {Undefined, Some(TRUE), Some(FALSE)}

VARIABLES
  \* ErrorRecoveryManager fields
  continueOnError, maxRetries, retryDelay, exponentialBackoff,
  \* ErrorLogger: the in-memory list, the log file's lines, whether the file exists
  errors, errorLogFile, errorLogExists,
  \* processWithRecovery: position, loop variable, lastError, the result
  rpc, attempt, lastError, ret,
  \* observation of one invocation: operation calls, failed attempts that
  \* were retryable, the sleeps requested, the log length at entry, the number
  \* of invocations so far
  opCalls, retryableFails, sleeps, errorsAtEntry, calls,
  \* the working directory: the enumerated inputs, which of them are LFS
  \* pointers, the modification times of the inputs and of the existing
  \* outputs, the configuration, the checkpoint file
  imageFiles, isPointer, inputMtime, outputMtime, config, stateFile,
  \* one process invocation of processImages: position, the options, the
  \* loaded checkpoint, startIndex, the loop variable, the statistics, the
  \* in-memory ledger of the ErrorRecoveryManager
  pc, options, savedState, startIndex, i, stats, processedFiles,
  \* observation: what each iteration of this run did, the number of process
  \* invocations, whether the previous run left every file processed or skipped
  \* and whether this run has invoked clearState
  trace, runs, prevClean, clearCalled,
  \* QualityRulesEngine: the rule list handed to the constructor, this.rules,
  \* whether the constructor has run, and the arguments and the result of the
  \* last getQualityForImage call
  qualityRules, rules, qpc, imagePath, metadata, defaultQuality, mergedQuality,
  \* observation of the calls made on one ErrorRecoveryManager: the last call
  \* with the ledger it found, the arguments of the last saveState whose file
  \* is still in place, the number of calls so far
  lastCall, lastSave, ops,
  \* watchForChanges: the processFile invocations that have begun and not
  \* completed, the number of watcher events delivered so far
  handlers, delivered,
  \* main: the flags of the command line and the parsed content of .imagerc
  argv, fileConfig

rvars == <<continueOnError, maxRetries, retryDelay, exponentialBackoff,
           rpc, attempt, lastError, ret, opCalls, retryableFails, sleeps,
           errorsAtEntry, calls>>
lvars == <<errors, errorLogFile, errorLogExists>>

wvars == <<imageFiles, isPointer, inputMtime, outputMtime, config, stateFile>>
ovars == <<pc, options, savedState, startIndex, i, stats, processedFiles,
           trace, runs, prevClean, clearCalled>>

qvars == <<qualityRules, rules, qpc, imagePath, metadata, defaultQuality,
           mergedQuality>>

cvars == <<lastCall, lastSave, ops>>
hvars == <<handlers, delivered>>
mvars == <<argv, fileConfig>>

vars == <<rvars, lvars, wvars, ovars, qvars, cvars, hvars, mvars>>

\* ------------------------------------------------------------------------
\* ErrorRecoveryManager constructor
\* ------------------------------------------------------------------------
\* JavaScript's a || b for an optional number and an optional boolean
NumberOr(a, b) == IF a = Undefined \/ a = Some(0) THEN b ELSE a[1]
BooleanOr(a, b) == IF a = Undefined \/ a = Some(FALSE) THEN b ELSE a[1]

ctor_continueOnError(o) == BooleanOr(o, FALSE)
ctor_maxRetries(o) == NumberOr(o, DefaultMaxRetries)
ctor_retryDelay(o) == NumberOr(o, DefaultRetryDelay)
ctor_exponentialBackoff(o) == o # Some(FALSE)

\* ------------------------------------------------------------------------
\* ErrorLogger
\* ------------------------------------------------------------------------
\* variant: the attempt number of the context is dropped
RetryCountOfDropped(ctxAttempt) == 0

\* context.attempt || 0
RetryCountOf(ctxAttempt) == NumberOr(ctxAttempt, 0)

errorEntry(file, error, ctxType, ctxAttempt) ==
  [file |-> file, error |-> error, type |-> ctxType,
   retryCount |-> RetryCountOf(ctxAttempt)]

\* a sequence of ErrorLogger.log calls, one per entry: each pushes its entry
\* onto the list and appends it as a line to the file, unless the file
\* cannot be appended to
ErrorLogger_logAllWith(entries, appendOk) ==
  /\ errors' = errors \o entries
  /\ errorLogFile' = IF appendOk THEN errorLogFile \o entries ELSE errorLogFile
  /\ errorLogExists' = (errorLogExists \/ (appendOk /\ entries # <<>>))

\* variant: a failed append is thrown to the caller of log
appendRaisesOnFailure(appendOk) == ~appendOk

\* the catch around fs.appendFile reports the failure on the console only
appendRaises(appendOk) == FALSE

\* log calls whose appends succeed
ErrorLogger_logAll(entries) == ErrorLogger_logAllWith(entries, TRUE)

\* ErrorLogger.log
ErrorLogger_log(file, error, ctxType, ctxAttempt) ==
  ErrorLogger_logAll(<<errorEntry(file, error, ctxType, ctxAttempt)>>)

\* ErrorLogger.clear
ErrorLogger_clear ==
  /\ errors' = <<>>
  /\ errorLogFile' = <<>>
  /\ errorLogExists' = FALSE

\* ------------------------------------------------------------------------
\* processWithRecovery
\* ------------------------------------------------------------------------
RECURSIVE Pow2(_)
Pow2(n) == IF n <= 0 THEN 1 ELSE 2 * Pow2(n - 1)

\* variant: every error with a code counts as transient
isRetryableAnyCode(error) == error.code # "undefined" \/ error.lfsMessage

isRetryable(error) == error.code \in retryableErrors \/ error.lfsMessage

\* variant: the exponent is the attempt number
backoffDelayOffByOne(n) ==
  IF exponentialBackoff THEN retryDelay * Pow2(n) ELSE retryDelay

backoffDelay(n) ==
  IF exponentialBackoff THEN retryDelay * Pow2(n - 1) ELSE retryDelay

NoResult == [kind |-> "none", success |-> FALSE, error |-> NoError, attempts |-> 0]

\* the file of the context handed to processWithRecovery
ContextFile == 1

\* entry: the for loop is initialised and its condition tested once
PWR_Enter ==
  /\ rpc = "idle"
  /\ calls < MaxCalls
  /\ calls' = calls + 1
  /\ attempt' = 1
  /\ lastError' = NoError
  /\ opCalls' = 0
  /\ retryableFails' = 0
  /\ sleeps' = <<>>
  /\ errorsAtEntry' = Len(errors)
  /\ IF 1 <= maxRetries
       THEN /\ rpc' = "attempting"
            /\ ret' = NoResult
       ELSE \* the loop body never runs: the return after the loop
            /\ rpc' = "returned"
            /\ ret' = [kind |-> "returned", success |-> FALSE,
                       error |-> NoError, attempts |-> maxRetries]
  /\ UNCHANGED <<continueOnError, maxRetries, retryDelay, exponentialBackoff, lvars, wvars, ovars, qvars, cvars, hvars, mvars, mvars>>

\* variant: the zero-based number of the attempt is reported
PWR_OperationReturnsZeroBased ==
  /\ rpc = "attempting"
  /\ opCalls' = opCalls + 1
  /\ rpc' = "returned"
  /\ ret' = [kind |-> "returned", success |-> TRUE, error |-> NoError,
             attempts |-> attempt - 1]
  /\ UNCHANGED <<continueOnError, maxRetries, retryDelay, exponentialBackoff,
                 attempt, lastError, retryableFails, sleeps, errorsAtEntry,
                 calls, lvars, wvars, ovars, qvars, cvars, hvars, mvars, mvars>>

\* await operation() resolves
PWR_OperationReturns ==
  /\ rpc = "attempting"
  /\ opCalls' = opCalls + 1
  /\ rpc' = "returned"
  /\ ret' = [kind |-> "returned", success |-> TRUE, error |-> NoError,
             attempts |-> attempt]
  /\ UNCHANGED <<continueOnError, maxRetries, retryDelay, exponentialBackoff,
                 attempt, lastError, retryableFails, sleeps, errorsAtEntry,
                 calls, lvars, wvars, ovars, qvars, cvars, hvars, mvars, mvars>>

\* variant: a terminal failure is returned whatever continueOnError says
PWR_OperationThrowsContained ==
  \E error \in ErrorObjects :
    /\ rpc = "attempting"
    /\ opCalls' = opCalls + 1
    /\ lastError' = error
    /\ IF ~isRetryable(error) \/ attempt = maxRetries
         THEN /\ ErrorLogger_log(ContextFile, error, "recovery", Some(attempt))
              /\ rpc' = "returned"
              /\ ret' = [kind |-> "returned", success |-> FALSE,
                         error |-> error, attempts |-> attempt]
              /\ UNCHANGED <<sleeps, retryableFails>>
         ELSE /\ sleeps' = Append(sleeps, backoffDelay(attempt))
              /\ retryableFails' = retryableFails + 1
              /\ rpc' = "sleeping"
              /\ UNCHANGED <<ret, lvars>>
    /\ UNCHANGED <<continueOnError, maxRetries, retryDelay, exponentialBackoff,
                   attempt, errorsAtEntry, calls, wvars, ovars, qvars, cvars, hvars, mvars, mvars>>

\* await operation() rejects with error: the catch block
PWR_OperationThrows ==
  \E error \in ErrorObjects :
    /\ rpc = "attempting"
    /\ opCalls' = opCalls + 1
    /\ lastError' = error
    /\ IF ~isRetryable(error) \/ attempt = maxRetries
         THEN /\ ErrorLogger_log(ContextFile, error, "recovery", Some(attempt))
              /\ IF continueOnError
                   THEN /\ rpc' = "returned"
                        /\ ret' = [kind |-> "returned", success |-> FALSE,
                                   error |-> error, attempts |-> attempt]
                   ELSE /\ rpc' = "thrown"
                        /\ ret' = [kind |-> "thrown", success |-> FALSE,
                                   error |-> error, attempts |-> attempt]
              /\ UNCHANGED <<sleeps, retryableFails>>
         ELSE /\ sleeps' = Append(sleeps, backoffDelay(attempt))
              /\ retryableFails' = retryableFails + 1
              /\ rpc' = "sleeping"
              /\ UNCHANGED <<ret, lvars>>
    /\ UNCHANGED <<continueOnError, maxRetries, retryDelay, exponentialBackoff,
                   attempt, errorsAtEntry, calls, wvars, ovars, qvars, cvars, hvars, mvars, mvars>>

\* variant: the loop variable is not advanced
PWR_SleepDoneNoIncrement ==
  /\ rpc = "sleeping"
  /\ rpc' = "attempting"
  /\ UNCHANGED <<continueOnError, maxRetries, retryDelay, exponentialBackoff,
                 attempt, ret, lastError, opCalls, retryableFails, sleeps,
                 errorsAtEntry, calls, lvars, wvars, ovars, qvars, cvars, hvars, mvars, mvars>>

\* the sleep resolves: attempt++ and the loop condition
PWR_SleepDone ==
  /\ rpc = "sleeping"
  /\ attempt' = attempt + 1
  /\ IF attempt + 1 <= maxRetries
       THEN /\ rpc' = "attempting"
            /\ UNCHANGED ret
       ELSE /\ rpc' = "returned"
            /\ ret' = [kind |-> "returned", success |-> FALSE,
                       error |-> lastError, attempts |-> maxRetries]
  /\ UNCHANGED <<continueOnError, maxRetries, retryDelay, exponentialBackoff,
                 lastError, opCalls, retryableFails, sleeps, errorsAtEntry,
                 calls, lvars, wvars, ovars, qvars, cvars, hvars, mvars, mvars>>

\* the caller invokes processWithRecovery again on the same manager
PWR_NextCall ==
  /\ rpc \in {"returned", "thrown"}
  /\ calls < MaxCalls
  /\ rpc' = "idle"
  /\ UNCHANGED <<continueOnError, maxRetries, retryDelay, exponentialBackoff,
                 attempt, lastError, ret, opCalls, retryableFails, sleeps,
                 errorsAtEntry, calls, lvars, wvars, ovars, qvars, cvars, hvars, mvars, mvars>>


\* ------------------------------------------------------------------------
\* QualityRulesEngine
\* ------------------------------------------------------------------------
\* A string is the sequence of its characters.  A rule is a record of its
\* optional pattern, directory and size bounds and its quality map (a
\* function from format names to numbers).
Rule(pattern, directory, minWidth, minHeight, maxWidth, maxHeight, quality) ==
  [pattern |-> pattern, directory |-> directory,
   minWidth |-> minWidth, minHeight |-> minHeight,
   maxWidth |-> maxWidth, maxHeight |-> maxHeight, quality |-> quality]

\* JavaScript's truthiness of an optional string and of an optional number
TruthyString(o) == o # Undefined /\ o # Some(<<>>)
TruthyNumber(o) == o # Undefined /\ o # Some(0)

\* str.replace(/\\/g, '/')
normalizeSeparators(str) ==
  [k \in DOMAIN str |-> IF str[k] = "\\" THEN "/" ELSE str[k]]

\* haystack.includes(needle)
includes(haystack, needle) ==
  \E p \in 0 .. Len(haystack) - Len(needle) :
    \A k \in 1 .. Len(needle) : haystack[p + k] = needle[k]

\* path.basename (POSIX): trailing slashes are dropped, then the part after
\* the last slash; a backslash is an ordinary character
RECURSIVE stripTrailingSlashes(_)
stripTrailingSlashes(str) ==
  IF str # <<>> /\ str[Len(str)] = "/"
    THEN stripTrailingSlashes(SubSeq(str, 1, Len(str) - 1))
    ELSE str

basename(imgPath) ==
  LET str == stripTrailingSlashes(imgPath)
      slashes == {k \in DOMAIN str : str[k] = "/"}
      last == IF slashes = {} THEN 0
              ELSE CHOOSE k \in slashes : \A j \in slashes : j <= k
  IN  SubSeq(str, last + 1, Len(str))

\* nocase: the characters are compared lower-cased
toLowerCase(c) ==
  CASE c = "A" -> "a" [] c = "B" -> "b" [] OTHER -> c

\* minimatch(name, pattern, { nocase: true }) for a pattern made of literal
\* characters, * and ? and a name without a slash: ? is one character, * is
\* any run of characters, a name starting with a dot is matched only by a
\* pattern starting with a literal dot, and the empty name is not matched.
\* The pattern is cut at its stars: the piece before the first star is a
\* prefix of the name, the piece after the last one a suffix, and the pieces
\* in between are found from left to right.
pieceMatchesAt(name, pattern, from, to, pos) ==
  /\ pos >= 0
  /\ pos + (to - from + 1) <= Len(name)
  /\ \A k \in from .. to :
       \/ pattern[k] = "?"
       \/ toLowerCase(pattern[k]) = toLowerCase(name[pos + k - from + 1])

RECURSIVE globAfterStar(_, _, _, _)
globAfterStar(name, pattern, star, pos) ==
  LET later == {k \in DOMAIN pattern : k > star /\ pattern[k] = "*"}
  IN  IF later = {}
        THEN /\ pos <= Len(name) - (Len(pattern) - star)
             /\ pieceMatchesAt(name, pattern, star + 1, Len(pattern),
                               Len(name) - (Len(pattern) - star))
        ELSE LET next == CHOOSE k \in later : \A j \in later : k <= j
                 places == {q \in pos .. Len(name) :
                              pieceMatchesAt(name, pattern, star + 1, next - 1, q)}
             IN  /\ places # {}
                 /\ globAfterStar(name, pattern, next,
                                  (CHOOSE q \in places : \A r \in places : q <= r)
                                  + (next - star - 1))

minimatch(name, pattern) ==
  LET stars == {k \in DOMAIN pattern : pattern[k] = "*"}
  IN  /\ name # <<>>
      /\ ~(name[1] = "." /\ pattern[1] \in {"*", "?"})
      /\ IF stars = {}
           THEN /\ Len(name) = Len(pattern)
                /\ pieceMatchesAt(name, pattern, 1, Len(pattern), 0)
           ELSE LET first == CHOOSE k \in stars : \A j \in stars : k <= j
                IN  /\ pieceMatchesAt(name, pattern, 1, first - 1, 0)
                    /\ globAfterStar(name, pattern, first, first - 1)

\* variant: the directory is looked for without the trailing slash
matchesDirectoryNoSlash(imgPath, ruleDirectory) ==
  includes(normalizeSeparators(imgPath), normalizeSeparators(ruleDirectory))

\* matchesDirectory
matchesDirectory(imgPath, ruleDirectory) ==
  LET normalizedPath == normalizeSeparators(imgPath)
      normalizedDir == normalizeSeparators(ruleDirectory)
      dirWithSlash ==
        IF normalizedDir # <<>> /\ normalizedDir[Len(normalizedDir)] = "/"
          THEN normalizedDir ELSE Append(normalizedDir, "/")
  IN  includes(normalizedPath, dirWithSlash)

\* metadata.width || 0
dimension(o) == NumberOr(o, 0)

\* variant: the upper bounds are not looked at
checkSizeRuleMinOnly(rule, meta) ==
  IF /\ ~TruthyNumber(rule.minWidth) /\ ~TruthyNumber(rule.minHeight)
     /\ ~TruthyNumber(rule.maxWidth) /\ ~TruthyNumber(rule.maxHeight)
    THEN TRUE
  ELSE IF meta = Undefined THEN FALSE
  ELSE /\ ~(TruthyNumber(rule.minWidth) /\ dimension(meta[1].width) < rule.minWidth[1])
       /\ ~(TruthyNumber(rule.minHeight) /\ dimension(meta[1].height) < rule.minHeight[1])

\* checkSizeRule
checkSizeRule(rule, meta) ==
  IF /\ ~TruthyNumber(rule.minWidth) /\ ~TruthyNumber(rule.minHeight)
     /\ ~TruthyNumber(rule.maxWidth) /\ ~TruthyNumber(rule.maxHeight)
    THEN TRUE
  ELSE IF meta = Undefined THEN FALSE
  ELSE /\ ~(TruthyNumber(rule.minWidth) /\ dimension(meta[1].width) < rule.minWidth[1])
       /\ ~(TruthyNumber(rule.minHeight) /\ dimension(meta[1].height) < rule.minHeight[1])
       /\ ~(TruthyNumber(rule.maxWidth) /\ dimension(meta[1].width) > rule.maxWidth[1])
       /\ ~(TruthyNumber(rule.maxHeight) /\ dimension(meta[1].height) > rule.maxHeight[1])

\* variant: the pattern is matched against the whole path
ruleMatchesWholePath(rule, imgPath, meta) ==
  /\ ~TruthyString(rule.pattern) \/ minimatch(imgPath, rule.pattern[1])
  /\ ~TruthyString(rule.directory) \/ matchesDirectory(imgPath, rule.directory[1])
  /\ checkSizeRule(rule, meta)

\* ruleMatches
ruleMatches(rule, imgPath, meta) ==
  LET patternMatch ==
        ~TruthyString(rule.pattern) \/ minimatch(basename(imgPath), rule.pattern[1])
      directoryMatch ==
        ~TruthyString(rule.directory) \/ matchesDirectory(imgPath, rule.directory[1])
      sizeMatch == checkSizeRule(rule, meta)
  IN  patternMatch /\ directoryMatch /\ sizeMatch

\* pattern.replace(/[*?]/g, '').length
nonWildcardChars(pattern) ==
  Cardinality({k \in DOMAIN pattern : pattern[k] \notin {"*", "?"}})

\* directory.split('/').filter(Boolean).length: the non-empty pieces between
\* the slashes of the directory as written
segmentCount(directory) ==
  Cardinality({k \in DOMAIN directory :
                 /\ directory[k] # "/"
                 /\ (k = 1 \/ directory[k - 1] = "/")})

hasSizeRule(rule) ==
  \/ TruthyNumber(rule.minWidth) \/ TruthyNumber(rule.minHeight)
  \/ TruthyNumber(rule.maxWidth) \/ TruthyNumber(rule.maxHeight)

criteriaCount(rule) ==
  (IF TruthyString(rule.pattern) THEN 1 ELSE 0)
  + (IF TruthyString(rule.directory) THEN 1 ELSE 0)
  + (IF hasSizeRule(rule) THEN 1 ELSE 0)

\* variant: the bonus for combined criteria is left out
getSpecificityScoreNoBonus(rule) ==
  (IF TruthyString(rule.pattern)
     THEN 40 + nonWildcardChars(rule.pattern[1]) ELSE 0)
  + (IF TruthyString(rule.directory)
       THEN 20 + segmentCount(rule.directory[1]) ELSE 0)
  + (IF hasSizeRule(rule) THEN 10 ELSE 0)

\* getSpecificityScore, counted in tenths: 4, 2 and 1 are 40, 20 and 10, a
\* non-wildcard character or a directory segment (0.1) is 1 and the bonus of
\* 2 per criterion is 20
getSpecificityScore(rule) ==
  (IF TruthyString(rule.pattern)
     THEN 40 + nonWildcardChars(rule.pattern[1]) ELSE 0)
  + (IF TruthyString(rule.directory)
       THEN 20 + segmentCount(rule.directory[1]) ELSE 0)
  + (IF hasSizeRule(rule) THEN 10 ELSE 0)
  + (IF criteriaCount(rule) > 1 THEN 20 * criteriaCount(rule) ELSE 0)

\* variant: a rule is placed before the rules of equal score
sortInsertBeforeEqual(sorted, rule) ==
  LET k == Cardinality({j \in DOMAIN sorted :
                          getSpecificityScore(sorted[j]) > getSpecificityScore(rule)})
  IN  SubSeq(sorted, 1, k) \o <<rule>> \o SubSeq(sorted, k + 1, Len(sorted))

\* the place Array.prototype.sort (stable) with the comparator scoreB - scoreA
\* gives a rule among the rules declared before it: after every rule whose
\* score is not lower
sortInsert(sorted, rule) ==
  LET k == Cardinality({j \in DOMAIN sorted :
                          getSpecificityScore(sorted[j]) >= getSpecificityScore(rule)})
  IN  SubSeq(sorted, 1, k) \o <<rule>> \o SubSeq(sorted, k + 1, Len(sorted))

\* sortRulesBySpecificity
RECURSIVE sortRulesBySpecificity(_)
sortRulesBySpecificity(ruleList) ==
  IF ruleList = <<>> THEN <<>>
  ELSE sortInsert(sortRulesBySpecificity(SubSeq(ruleList, 1, Len(ruleList) - 1)),
                  ruleList[Len(ruleList)])

\* a quality map without keys
NoQuality == [k \in {} |-> 0]

\* { ...a, ...b }
spread(a, b) ==
  [k \in DOMAIN a \cup DOMAIN b |-> IF k \in DOMAIN b THEN b[k] ELSE a[k]]

\* variant: the accumulator starts empty
seedQualityEmpty(defaults) == NoQuality

\* let mergedQuality = { ...defaultQuality }
seedQuality(defaults) == spread(NoQuality, defaults)

\* variant: the matching rules are applied most specific first
RECURSIVE applyRulesDescending(_, _)
applyRulesDescending(acc, matching) ==
  IF matching = <<>> THEN acc
  ELSE applyRulesDescending(spread(acc, matching[1].quality), Tail(matching))

\* the loop over [...matchingRules].reverse(): the last matching rule of
\* this.rules is applied first
RECURSIVE applyRules(_, _)
applyRules(acc, matching) ==
  IF matching = <<>> THEN acc
  ELSE applyRules(spread(acc, matching[Len(matching)].quality),
                  SubSeq(matching, 1, Len(matching) - 1))

\* this.rules.filter(rule => this.ruleMatches(rule, imagePath, metadata))
matchingRules(ruleList, imgPath, meta) ==
  SelectSeq(ruleList, LAMBDA r : ruleMatches(r, imgPath, meta))

\* getQualityForImage
getQualityForImage(ruleList, imgPath, meta, defaults) ==
  applyRules(seedQuality(defaults), matchingRules(ruleList, imgPath, meta))

\* ------------------------------------------------------------------------
\* The rules, paths and metadata the engine is run on
\* ------------------------------------------------------------------------
\* the patterns and directories of the rules
RulePatterns ==
  {<<"*">>,
   <<"*", ".", "b">>,
   <<"?", ".", "b">>,
   <<"a", "*">>,
   <<"A", ".", "b">>}
RuleDirectories ==
  {<<"a">>,
   <<"a", "/">>,
   <<"a", "\\">>,
   <<"a", "/", "b">>,
   <<"a", "\\", "b", "/">>,
   <<"a", "b">>,
   <<"b">>}

\* a pattern of LongPatternLen literal characters followed by *, and a file
\* name it matches
LongPattern == [k \in 1 .. LongPatternLen + 1 |->
                  IF k <= LongPatternLen THEN "a" ELSE "*"]
LongName == [k \in 1 .. LongPatternLen + 2 |->
               IF k <= LongPatternLen THEN "a"
               ELSE IF k = LongPatternLen + 1 THEN "." ELSE "b"]

\* the directory parts and the base names of the paths asked about
PathDirectories ==
  {<<>>,
   <<"a", "/">>,
   <<"a", "b", "/">>,
   <<"b", "a", "/">>,
   <<"b", "/", "a", "/">>,
   <<"a", "/", "b", "/">>,
   <<"a", "\\">>,
   <<"a", "b", "/", "a", "/">>,
   <<"a", "b", "\\">>}
PathNames ==
  {<<"a", ".", "b">>,
   <<"A", ".", "B">>,
   <<".", "b">>,
   <<"a", "b">>}
ImagePaths ==
  {d \o n : d \in PathDirectories, n \in PathNames}
  \cup {<<"a", "/">> \o LongName}

\* a size bound of a validated rule is absent or a positive number
SizeBounds == {Undefined} \cup {Some(n) : n \in 1 .. MaxDim}

\* the metadata argument: none, or an object whose width and height are
\* numbers or missing
Dimensions == {Undefined} \cup {Some(n) : n \in 1 .. MaxDim + 1}
Metadatas == {Undefined} \cup {Some(m) : m \in [width : Dimensions, height : Dimensions]}

\* quality maps
QWebp(n) == [k \in {"webp"} |-> n]
QWebpAvif(n, m) == [k \in {"webp", "avif"} |-> IF k = "webp" THEN n ELSE m]
QJpeg(n) == [k \in {"jpeg"} |-> n]
DefaultQuality == [k \in {"webp", "avif", "jpeg"} |-> 80]
DefaultQualities == {NoQuality, DefaultQuality}

PatternRule(pattern, quality) ==
  Rule(Some(pattern), Undefined, Undefined, Undefined, Undefined, Undefined, quality)
DirectoryRule(directory, quality) ==
  Rule(Undefined, Some(directory), Undefined, Undefined, Undefined, Undefined, quality)

\* rules that are combined into rule lists: general and narrower patterns,
\* two patterns of equal score, shallow and deep directories, a pattern with
\* a directory, a size rule and a pattern with many literal characters.
\* Two of these rules have the same score only when the score is computed
\* from the same numbers in the same order, so that equal tenths are equal
\* floating-point scores.
MergeRules ==
  {PatternRule(<<"*">>, QWebp(60)),
   PatternRule(<<"*", ".", "b">>, QWebpAvif(70, 55)),
   PatternRule(<<"?", ".", "b">>, QWebp(75)),
   DirectoryRule(<<"a">>, QWebpAvif(85, 45)),
   DirectoryRule(<<"a", "/", "b", "/">>, QWebp(90)),
   Rule(Some(<<"*", ".", "b">>), Some(<<"a">>), Undefined, Undefined, Undefined,
        Undefined, QWebp(95)),
   Rule(Undefined, Undefined, Some(2), Undefined, Undefined, Undefined, QJpeg(65)),
   PatternRule(LongPattern, QWebp(50))}

\* the rule lists of at most n rules
RECURSIVE RuleListsUpTo(_)
RuleListsUpTo(n) ==
  IF n = 0 THEN {<<>>}
  ELSE RuleListsUpTo(n - 1)
       \cup {Append(l, r) : l \in {m \in RuleListsUpTo(n - 1) : Len(m) = n - 1},
                           r \in MergeRules}

\* validateConfig: a rule has at least one matching criterion
hasCriteria(rule) ==
  \/ TruthyString(rule.pattern) \/ TruthyString(rule.directory) \/ hasSizeRule(rule)

\* single rules with every combination of pattern and directory clauses, and
\* single rules with every combination of size bounds
MatchRules ==
  {r \in [pattern : {Undefined, Some(<<>>)} \cup {Some(p) : p \in RulePatterns},
          directory : {Undefined, Some(<<>>)} \cup {Some(d) : d \in RuleDirectories},
          minWidth : {Undefined, Some(MaxDim)}, minHeight : {Undefined},
          maxWidth : {Undefined}, maxHeight : {Undefined, Some(1)},
          quality : {QWebp(60)}] : hasCriteria(r)}
SizeRules ==
  {r \in [pattern : {Undefined}, directory : {Undefined},
          minWidth : SizeBounds, minHeight : SizeBounds,
          maxWidth : SizeBounds, maxHeight : SizeBounds,
          quality : {QWebp(60)}] : hasCriteria(r)}

ConfiguredRuleLists ==
  RuleListsUpTo(MaxRules)
  \cup {<<r>> : r \in MatchRules}
  \cup {<<r>> : r \in SizeRules}

\* ------------------------------------------------------------------------
\* ConfigLoader.validateConfig on the quality rules of .imagerc
\* ------------------------------------------------------------------------
\* the values JSON.parse produces, with their types
JsUndefined == [type |-> "undefined"]
JsNull == [type |-> "null"]
JsNumber(n) == [type |-> "number", val |-> n]
JsString(s) == [type |-> "string", val |-> s]
JsObject(m) == [type |-> "object", val |-> m]
JsArray(a) == [type |-> "array", val |-> a]

\* typeof v
typeof(v) == IF v.type \in {"null", "array"} THEN "object" ELSE v.type

\* !!v
truthy(v) ==
  CASE v.type \in {"undefined", "null"} -> FALSE
    [] v.type = "number" -> v.val # 0
    [] v.type = "string" -> v.val # <<>>
    [] OTHER -> TRUE

sizeProps == <<"minWidth", "minHeight", "maxWidth", "maxHeight">>

\* typeof value !== 'number' || value < 1 || value > 100
badQualityValue(value) ==
  typeof(value) # "number" \/ value.val < 1 \/ value.val > 100

\* the callback of config.qualityRules.forEach: the error it throws for a
\* rule, or "ok"
validateRule(rule) ==
  IF typeof(rule) # "object" \/ rule.type = "null" THEN "must be an object"
  ELSE LET r == rule.val IN
    IF /\ ~truthy(r.pattern) /\ ~truthy(r.directory)
       /\ \A k \in DOMAIN sizeProps : ~truthy(r[sizeProps[k]])
      THEN "must have at least one matching criteria"
    ELSE IF r.pattern # JsUndefined /\ typeof(r.pattern) # "string"
      THEN "pattern must be a string"
    ELSE IF r.directory # JsUndefined /\ typeof(r.directory) # "string"
      THEN "directory must be a string"
    ELSE IF \E k \in DOMAIN sizeProps :
              /\ r[sizeProps[k]] # JsUndefined
              /\ (typeof(r[sizeProps[k]]) # "number" \/ r[sizeProps[k]].val <= 0)
      THEN "must be a positive number"
    ELSE IF ~truthy(r.quality) \/ typeof(r.quality) # "object"
      THEN "quality must be an object"
    ELSE IF \E format \in DOMAIN r.quality.val : badQualityValue(r.quality.val[format])
      THEN "must be between 1 and 100"
    ELSE "ok"

\* the qualityRules part of validateConfig: the error thrown, or "ok"
validateQualityRules(qr) ==
  IF qr = JsUndefined THEN "ok"
  ELSE IF qr.type # "array" THEN "qualityRules must be an array"
  ELSE IF \A k \in DOMAIN qr.val : validateRule(qr.val[k]) = "ok" THEN "ok"
  ELSE validateRule(qr.val[CHOOSE k \in DOMAIN qr.val :
                             /\ validateRule(qr.val[k]) # "ok"
                             /\ \A j \in 1 .. k - 1 : validateRule(qr.val[j]) = "ok"])

\* a validated rule as the engine reads it
optionOf(v) == IF v = JsUndefined THEN Undefined ELSE Some(v.val)
engineRule(rule) ==
  LET r == rule.val IN
    Rule(optionOf(r.pattern), optionOf(r.directory), optionOf(r.minWidth),
         optionOf(r.minHeight), optionOf(r.maxWidth), optionOf(r.maxHeight),
         [format \in DOMAIN r.quality.val |-> r.quality.val[format].val])

\* config.qualityRules || []
engineRules(qr) ==
  IF qr = JsUndefined THEN <<>> ELSE [k \in DOMAIN qr.val |-> engineRule(qr.val[k])]

\* ------------------------------------------------------------------------
\* Files, output paths and the configuration
\* ------------------------------------------------------------------------
validFormats == {"webp", "avif", "original", "jpeg", "png"}
DefaultFormats == {"webp", "avif", "original"}
ImageExtensions == {".jpg", ".jpeg", ".png", ".gif", ".webp"}

\* an enumerated input: its directory below the input root ("" is the root),
\* its base name (the position in the enumeration names the file) and its
\* lower-cased extension
RootDir == ""
SubDir == "sub"

OutPath(dir, name, suffix) == [dir |-> dir, name |-> name, suffix |-> suffix]

\* the log's file field of the job-level entry, and the error processImages
\* creates for a file whose result is 'error'
FatalFile == 0
ProcessingError == [code |-> "undefined", lfsMessage |-> FALSE]

\* the error of a write the disk refuses, and a checkpoint file the refused
\* write left cut off
WriteError == [code |-> "ENOSPC", lfsMessage |-> FALSE]

\* modification times: a missing file has none; outputs are written now
Missing == 0
InputTime == 1
WriteTime == 2
\* a time after the writes of this run (a clock set forward, a copied file)
LaterTime == 3
Times == {InputTime, WriteTime, LaterTime}

\* ImageOptimizer.generateConfiguredPaths: Object.values of the paths the
\* timestamp check looks at
generateConfiguredPaths(file) ==
  LET F == config.formats
      outputExt ==
        IF file.ext \in {".jpeg", ".jpg"}
          THEN (IF "jpeg" \in F THEN ".jpg" ELSE file.ext)
          ELSE IF file.ext = ".png" THEN ".png" ELSE file.ext
  IN  (IF "webp" \in F THEN {OutPath(RootDir, file.name, ".webp")} ELSE {})
      \cup (IF "avif" \in F THEN {OutPath(RootDir, file.name, ".avif")} ELSE {})
      \cup (IF F \cap {"original", "jpeg", "png"} # {}
              THEN {OutPath(RootDir, file.name, outputExt)} ELSE {})
      \cup (IF config.generateThumbnails
              THEN {OutPath(RootDir, file.name, "-thumb.webp")} ELSE {})

\* OutputPathGenerator.generatePaths
generatePaths(file) ==
  [webp |-> OutPath(file.dir, file.name, ".webp"),
   avif |-> OutPath(file.dir, file.name, ".avif"),
   original |-> OutPath(file.dir, file.name,
                        IF file.ext = ".png" THEN ".png" ELSE ".jpg"),
   thumbnail |-> OutPath(file.dir, file.name, "-thumb.webp")]

\* config.quality?.<key> || fallback
qualityOr(quality, key, fallback) ==
  IF key \in DOMAIN quality /\ quality[key] # 0 THEN quality[key] ELSE fallback

\* one output config: where it is written, the codec format, which output of
\* the file it is and its quality option (none for png)
OutputConfig(outputPath, format, output, quality) ==
  [outputPath |-> outputPath, format |-> format, output |-> output,
   quality |-> quality]

\* the output configs, in order, for a quality map
generateWith(file, paths, quality) ==
  LET F == config.formats
      isJpeg == file.ext \in {".jpg", ".jpeg"}
      isOriginalOnly == F = {"original"}
  IN  (IF "webp" \in F /\ file.ext # ".webp"
         THEN <<OutputConfig(paths.webp, "webp", "webp",
                             Some(qualityOr(quality, "webp", 85)))>>
         ELSE <<>>)
      \o (IF "avif" \in F
            THEN <<OutputConfig(paths.avif, "avif", "avif",
                                Some(qualityOr(quality, "avif", 80)))>>
            ELSE <<>>)
      \o (IF \/ "original" \in F
             \/ (file.ext = ".png" /\ "png" \in F)
             \/ (isJpeg /\ "jpeg" \in F)
            THEN <<OutputConfig(paths.original,
                                IF isJpeg THEN "jpeg" ELSE "png", "original",
                                IF isJpeg
                                  THEN Some(qualityOr(quality, "jpeg", 90))
                                  ELSE Undefined)>>
            ELSE <<>>)
      \o (IF config.generateThumbnails /\ ~isOriginalOnly
            THEN <<OutputConfig(paths.thumbnail, "webp", "thumbnail",
                                Some(qualityOr(quality, "thumbnail", 70)))>>
            ELSE <<>>)

\* ProcessingConfigGenerator.generate(filename, paths, this.config): the
\* output configs, in order; the quality options come from the quality map of
\* the optimizer's configuration
generate(file, paths) == generateWith(file, paths, config.quality)

\* FileTimestampChecker.getModTime of an output
getModTime(path) ==
  IF path \in DOMAIN outputMtime THEN outputMtime[path] ELSE Missing

\* variant: the input's time is read whatever forceReprocess says
statCalledAlways(forceReprocess) == TRUE

\* whether shouldProcess calls getModTime at all: it returns before the first
\* call when forceReprocess is set
statCalled(forceReprocess) == ~forceReprocess

\* variant: every output has to be missing or older than the input
shouldProcessAllStale(inputModTime, outputPaths, forceReprocess) ==
  IF forceReprocess THEN TRUE
  ELSE IF inputModTime = Missing THEN FALSE
  ELSE \A p \in outputPaths :
         getModTime(p) = Missing \/ inputModTime > getModTime(p)

\* FileTimestampChecker.shouldProcess
shouldProcess(inputModTime, outputPaths, forceReprocess) ==
  IF forceReprocess THEN TRUE
  ELSE IF inputModTime = Missing THEN FALSE
  ELSE \E p \in outputPaths :
         getModTime(p) = Missing \/ inputModTime > getModTime(p)

\* ------------------------------------------------------------------------
\* ImageOptimizer.optimizeImage: the set of its possible outcomes on the
\* f-th enumerated file, one per behaviour of the LFS puller, the codec and
\* the file copy
\* ------------------------------------------------------------------------
Outcome(result, pointer, pulled, tsCheck, codec, copy, writes) ==
  [result |-> result, pointer |-> pointer, pulled |-> pulled,
   tsCheck |-> tsCheck, codec |-> codec, copy |-> copy, writes |-> writes,
   configs |-> <<>>, stat |-> FALSE]

\* an outcome of the codec call: the configs it was handed
CodecOutcome(result, pulled, writes, configs) ==
  [Outcome(result, FALSE, pulled, TRUE, TRUE, FALSE, writes)
     EXCEPT !.configs = configs]

\* the part after the LFS gate, for the options handed to optimizeImage
afterLfsOutcomes(f, pulled, opts) ==
  LET file == imageFiles[f]
      outputPaths == generateConfiguredPaths(file)
      needsProcessing ==
        shouldProcess(inputMtime[f], outputPaths, opts.forceReprocess)
      configs == generate(file, generatePaths(file))
  IN  IF ~needsProcessing
        THEN {Outcome("skipped", FALSE, pulled, TRUE, FALSE, FALSE, {})}
      ELSE IF file.ext = ".gif"
        THEN {Outcome("processed", FALSE, pulled, TRUE, FALSE, TRUE,
                      {OutPath(file.dir, file.name, file.ext)}),
              Outcome("error", FALSE, pulled, TRUE, FALSE, TRUE, {})}
      ELSE IF configs = <<>>
        THEN {Outcome("processed", FALSE, pulled, TRUE, FALSE, FALSE, {})}
      ELSE {CodecOutcome(IF failed = {} THEN "processed" ELSE "error", pulled,
                         {configs[k].outputPath : k \in (DOMAIN configs) \ failed},
                         configs)
              : failed \in SUBSET (DOMAIN configs)}

optimizeAfterLfsWith(f, pulled, opts) ==
  {[o EXCEPT !.stat = statCalled(opts.forceReprocess)]
     : o \in afterLfsOutcomes(f, pulled, opts)}

\* variant: a file that is a pointer and is not pulled goes on to the
\* timestamp check
optimizeImageNoGate(f, opts) ==
  IF isPointer[f] /\ opts.pullLfs
    THEN {Outcome("lfs-error", TRUE, TRUE, FALSE, FALSE, FALSE, {})}
         \cup optimizeAfterLfsWith(f, TRUE, opts)
    ELSE {[o EXCEPT !.pointer = isPointer[f]]
            : o \in optimizeAfterLfsWith(f, FALSE, opts)}

\* optimizeImage(inputPath, filename, options)
optimizeImageWith(f, opts) ==
  IF isPointer[f]
    THEN IF opts.pullLfs
           THEN \* the pull fails, or succeeds and leaves a pointer, or succeeds
                {Outcome("lfs-error", TRUE, TRUE, FALSE, FALSE, FALSE, {})}
                \cup optimizeAfterLfsWith(f, TRUE, opts)
           ELSE {Outcome("lfs-pointer", TRUE, FALSE, FALSE, FALSE, FALSE, {})}
    ELSE optimizeAfterLfsWith(f, FALSE, opts)

\* the same for the options of the running processImages
optimizeAfterLfs(f, pulled) == optimizeAfterLfsWith(f, pulled, options)
optimizeImage(f) == optimizeImageWith(f, options)

\* ------------------------------------------------------------------------
\* The checkpoint: StatePersistenceManager and the ErrorRecoveryManager's
\* saveState / loadState / recordProcessedFile
\* ------------------------------------------------------------------------
\* a JavaScript number that may be NaN
Num(n) == [nan |-> FALSE, v |-> n]
NaN == [nan |-> TRUE, v |-> 0]

EmptyLedger == [k \in {} |-> "none"]

\* the checkpoint file: absent, not JSON, of another version, or a state
\* object with its optional checkpoint.processedCount, its optional progress
\* and its files.processed
NoProgress == Undefined
StateFileOf(kind, checkpoint, progress, processed) ==
  [kind |-> kind, checkpoint |-> checkpoint, progress |-> progress,
   processed |-> processed, pending |-> <<>>]
AbsentStateFile == StateFileOf("absent", Undefined, NoProgress, EmptyLedger)
TruncatedStateFile == StateFileOf("invalid", Undefined, NoProgress, EmptyLedger)

CountStatus(ledger, status) ==
  Cardinality({k \in DOMAIN ledger : ledger[k] = status})

\* saveState(state) followed by StatePersistenceManager.save: total is
\* state.total, which may be undefined
saveState(ledger, total) ==
  StateFileOf("v1", Undefined,
    Some([total |-> NumberOr(total, 0),
          processed |-> Cardinality(DOMAIN ledger),
          succeeded |-> CountStatus(ledger, "success"),
          failed |-> CountStatus(ledger, "failed"),
          remaining |-> IF total = Undefined THEN NaN
                        ELSE Num(total[1] - Cardinality(DOMAIN ledger))]),
    ledger)

\* state.pending || []
pendingOr(pending) == IF pending = Undefined THEN <<>> ELSE pending[1]

\* saveState(state) for a state object with optional total and pending
saveStateWith(ledger, total, pending) ==
  [saveState(ledger, total) EXCEPT !.pending = pendingOr(pending)]

\* variant: a file of any version is accepted
StatePersistence_loadAnyVersion(file) ==
  IF file.kind \in {"absent", "invalid"} THEN Undefined ELSE Some(file)

\* StatePersistenceManager.load: null unless the file parses and has the
\* current version
StatePersistence_load(file) ==
  IF file.kind \in {"absent", "invalid", "version"} THEN Undefined ELSE Some(file)

\* variant: the restored entries all get the status 'success'
restoreLedgerAsSuccess(ledger, state) ==
  IF state = Undefined THEN ledger
  ELSE [k \in DOMAIN ledger \cup DOMAIN state[1].processed |->
          IF k \in DOMAIN state[1].processed THEN "success"
          ELSE ledger[k]]

\* loadState's restore of the ledger
restoreLedger(ledger, state) ==
  IF state = Undefined THEN ledger
  ELSE [k \in DOMAIN ledger \cup DOMAIN state[1].processed |->
          IF k \in DOMAIN state[1].processed THEN state[1].processed[k]
          ELSE ledger[k]]

\* variant: the ledger is replaced by the one new record
recordProcessedFileOnly(ledger, filePath, status) ==
  [k \in {filePath} |-> status]

\* recordProcessedFile: this.processedFiles.set(filePath, data)
recordProcessedFile(ledger, filePath, status) ==
  [k \in DOMAIN ledger \cup {filePath} |->
     IF k = filePath THEN status ELSE ledger[k]]

\* ------------------------------------------------------------------------
\* ImageOptimizerApp.processImages
\* ------------------------------------------------------------------------
CheckpointEvery == 10

\* variant: a checkpoint is saved with every second batch of ten files
checkpointDueHalf(index) == index % (2 * CheckpointEvery) = 0

\* if (i % 10 === 0)
checkpointDue(index) == index % CheckpointEvery = 0

ZeroStats == [processed |-> 0, skipped |-> 0, errors |-> 0,
              lfsPointers |-> 0, lfsErrors |-> 0]

OptionSets == [forceReprocess : BOOLEAN, pullLfs : BOOLEAN,
               continueOnError : BOOLEAN, resumeFlag : BOOLEAN]

\* _updateStats
updateStats(s, result) ==
  CASE result = "processed" -> [s EXCEPT !.processed = @ + 1]
    [] result = "skipped" -> [s EXCEPT !.skipped = @ + 1]
    [] result = "error" -> [s EXCEPT !.errors = @ + 1]
    [] result = "lfs-pointer" -> [s EXCEPT !.lfsPointers = @ + 1]
    [] result = "lfs-error" -> [s EXCEPT !.lfsErrors = @ + 1]
    [] OTHER -> s

\* variant: only the old format's checkpoint.processedCount is honoured
computeStartIndexLegacyOnly(resumeFlag, state) ==
  IF resumeFlag /\ state # Undefined
    THEN NumberOr(state[1].checkpoint, 0)
    ELSE 0

\* savedState.checkpoint?.processedCount || savedState.progress?.processed || 0
computeStartIndex(resumeFlag, state) ==
  IF resumeFlag /\ state # Undefined
    THEN NumberOr(state[1].checkpoint,
           NumberOr(IF state[1].progress = Undefined THEN Undefined
                    ELSE Some(state[1].progress[1].processed), 0))
    ELSE 0

\* imageFiles.slice(startIndex).length
filesToProcessLength ==
  IF startIndex >= Len(imageFiles) THEN 0 ELSE Len(imageFiles) - startIndex

\* the beginning of processImages(options) up to the loop
StartRunWith(opts) ==
    /\ pc = "idle"
    /\ options' = opts
    /\ stats' = ZeroStats
    /\ i' = 0
    /\ trace' = <<>>
    /\ clearCalled' = FALSE
    /\ IF Len(imageFiles) = 0
         THEN \* 'No images found': return before the checkpoint is loaded
              /\ pc' = "done"
              /\ prevClean' = FALSE
              /\ UNCHANGED <<savedState, startIndex, processedFiles>>
         ELSE /\ savedState' = StatePersistence_load(stateFile)
              /\ processedFiles' =
                   restoreLedger(processedFiles, StatePersistence_load(stateFile))
              /\ startIndex' =
                   computeStartIndex(opts.resumeFlag, StatePersistence_load(stateFile))
              /\ pc' = "loop"
              /\ UNCHANGED prevClean
    /\ UNCHANGED <<cvars, hvars, mvars, qvars, rvars, lvars, wvars, runs>>

\* processImages called with any options
StartRun == \E opts \in OptionSets : StartRunWith(opts)

\* the characters of path.join(this.inputDir, file)
InputDirChars == <<"o", "r", "i", "g", "i", "n", "a", "l", "/">>
DirChars(dir) == IF dir = RootDir THEN <<>> ELSE <<"s", "u", "b", "/">>
DigitChars == <<"0", "1", "2", "3", "4", "5", "6", "7", "8", "9">>
NameChars(name) ==
  IF name < 10 THEN <<"f", DigitChars[name + 1]>>
  ELSE <<"f", DigitChars[(name \div 10) + 1], DigitChars[(name % 10) + 1]>>
ExtChars(ext) ==
  CASE ext = ".jpg" -> <<".", "j", "p", "g">>
    [] ext = ".jpeg" -> <<".", "j", "p", "e", "g">>
    [] ext = ".png" -> <<".", "p", "n", "g">>
    [] ext = ".gif" -> <<".", "g", "i", "f">>
    [] ext = ".webp" -> <<".", "w", "e", "b", "p">>
pathOf(file) ==
  InputDirChars \o DirChars(file.dir) \o NameChars(file.name) \o ExtChars(file.ext)

\* what one iteration did: the quality map handed to optimizeImage in its
\* options, the outcome of optimizeImage and the configs the codec was handed
TraceEntry(f, o, recorded, quality) ==
  [file |-> f, result |-> o.result, lfsCheck |-> TRUE, pulled |-> o.pulled,
   tsCheck |-> o.tsCheck, codec |-> o.codec, copy |-> o.copy,
   recorded |-> recorded, quality |-> quality, configs |-> o.configs,
   stat |-> o.stat, wasPointer |-> isPointer[f], pointer |-> o.pointer]

\* variant: a file whose result is 'error' never ends the run
throwsOnErrorNever(result) == FALSE

\* if (result === 'error') { ... if (!continueOnError) throw error }
throwsOnError(result) == result = "error" /\ ~options.continueOnError

\* one iteration of the loop over filesToProcess
ProcessFileOn(saveOk, appendOk) ==
  /\ pc = "loop"
  /\ i < filesToProcessLength
  /\ LET f == startIndex + i + 1 IN
     \E o \in optimizeImage(f) :
       LET ledger == recordProcessedFile(processedFiles, f, o.result)
           \* getQualityForImage(path.join(this.inputDir, file)) and the merge
           \* with this.config.quality
           imageQuality ==
             getQualityForImage(rules, pathOf(imageFiles[f]), Undefined, NoQuality)
           quality == spread(config.quality, imageQuality)
           entry == errorEntry(f, ProcessingError, "processing_error", Undefined)
           fatal == errorEntry(FatalFile, ProcessingError, "fatal", Undefined)
           saveEntry == errorEntry(f, WriteError, "processing_error", Undefined)
           saveFatal == errorEntry(FatalFile, WriteError, "fatal", Undefined)
           logRaises == o.result = "error" /\ appendRaises(appendOk)
           aborts == throwsOnError(o.result) \/ logRaises
           saveThrows == ~aborts /\ checkpointDue(i) /\ ~saveOk
       IN
       \* a write that is not attempted does not fail
       /\ ~saveOk => saveThrows
       /\ ~appendOk => (o.result = "error" \/ saveThrows)
       /\ isPointer' = [isPointer EXCEPT ![f] = o.pointer]
       /\ outputMtime' =
            [p \in DOMAIN outputMtime \cup o.writes |->
               IF p \in o.writes THEN WriteTime ELSE outputMtime[p]]
       /\ imagePath' = pathOf(imageFiles[f])
       /\ metadata' = Undefined
       /\ defaultQuality' = NoQuality
       /\ mergedQuality' = imageQuality
       /\ qpc' = "resolved"
       /\ trace' = Append(trace, TraceEntry(f, o, ~aborts, quality))
       /\ IF aborts
            THEN \* logError and throw; the iteration's catch counts and logs
                 \* the error again and rethrows; the outer catch logs FATAL
                 /\ stats' = [updateStats(stats, o.result) EXCEPT !.errors = @ + 1]
                 /\ ErrorLogger_logAllWith(<<entry, entry, fatal>>, appendOk)
                 /\ pc' = "failed"
                 /\ prevClean' = FALSE
                 /\ UNCHANGED <<processedFiles, stateFile, i>>
            ELSE IF saveThrows
            THEN \* saveState throws after the file was counted and recorded:
                 \* the iteration's catch counts and logs an error and
                 \* rethrows it unless continueOnError
                 /\ stats' = [updateStats(stats, o.result) EXCEPT !.errors = @ + 1]
                 /\ ErrorLogger_logAllWith(
                      (IF o.result = "error" THEN <<entry>> ELSE <<>>)
                        \o <<saveEntry>>
                        \o (IF options.continueOnError THEN <<>> ELSE <<saveFatal>>),
                      appendOk)
                 /\ processedFiles' = ledger
                 /\ \E written \in {stateFile, TruncatedStateFile} : stateFile' = written
                 /\ IF options.continueOnError
                      THEN i' = i + 1 /\ UNCHANGED <<pc, prevClean>>
                      ELSE pc' = "failed" /\ prevClean' = FALSE /\ UNCHANGED i
            ELSE /\ stats' = updateStats(stats, o.result)
                 /\ ErrorLogger_logAllWith(
                      IF o.result = "error" THEN <<entry>> ELSE <<>>, appendOk)
                 /\ processedFiles' = ledger
                 /\ stateFile' =
                      IF checkpointDue(i)
                        THEN saveState(ledger, Undefined) ELSE stateFile
                 /\ i' = i + 1
                 /\ UNCHANGED <<pc, prevClean>>
  /\ UNCHANGED <<cvars, hvars, mvars, qualityRules, rules, rvars, imageFiles, inputMtime, config,
                 options, savedState, startIndex, runs, clearCalled>>

\* one iteration of the loop when the disk takes every write
ProcessFile == ProcessFileOn(TRUE, TRUE)

\* one iteration in which the checkpoint file cannot be written, the error
\* log cannot be appended to, or both
ProcessFile_WriteFails ==
  \E saveOk, appendOk \in BOOLEAN :
    /\ ~(saveOk /\ appendOk)
    /\ ProcessFileOn(saveOk, appendOk)

\* variant: clearState leaves the checkpoint file in place
FinishRunKeepsCheckpoint ==
  /\ pc = "loop"
  /\ i >= filesToProcessLength
  /\ IF stats.errors = 0
       THEN /\ ErrorLogger_clear
            /\ processedFiles' = EmptyLedger
            /\ clearCalled' = TRUE
            /\ UNCHANGED stateFile
       ELSE /\ stateFile' = saveState(processedFiles, Undefined)
            /\ UNCHANGED <<lvars, processedFiles, clearCalled>>
  /\ pc' = "done"
  /\ prevClean' = /\ Len(trace) = Len(imageFiles)
                  /\ \A k \in DOMAIN trace : trace[k].result \in {"processed", "skipped"}
  /\ UNCHANGED <<cvars, hvars, mvars, qvars, rvars, imageFiles, isPointer, inputMtime, outputMtime, config,
                 options, savedState, startIndex, i, stats, trace, runs>>

\* after the loop: clearState or the final saveState, and return stats
FinishRun ==
  /\ pc = "loop"
  /\ i >= filesToProcessLength
  /\ IF stats.errors = 0
       THEN \* clearState
            /\ stateFile' = AbsentStateFile
            /\ ErrorLogger_clear
            /\ processedFiles' = EmptyLedger
            /\ clearCalled' = TRUE
       ELSE /\ stateFile' = saveState(processedFiles, Undefined)
            /\ UNCHANGED <<lvars, processedFiles, clearCalled>>
  /\ pc' = "done"
  /\ prevClean' = /\ Len(trace) = Len(imageFiles)
                  /\ \A k \in DOMAIN trace : trace[k].result \in {"processed", "skipped"}
  /\ UNCHANGED <<cvars, hvars, mvars, qvars, rvars, imageFiles, isPointer, inputMtime, outputMtime, config,
                 options, savedState, startIndex, i, stats, trace, runs>>

\* the process exits and the tool is started again in the same directory:
\* new managers, the files stay
NewProcess ==
  /\ pc \in {"done", "failed"}
  /\ runs < MaxRuns
  /\ runs' = runs + 1
  /\ pc' = "idle"
  /\ errors' = <<>>
  /\ processedFiles' = EmptyLedger
  /\ savedState' = Undefined
  /\ startIndex' = 0
  /\ i' = 0
  /\ stats' = ZeroStats
  /\ trace' = <<>>
  /\ clearCalled' = FALSE
  /\ UNCHANGED <<cvars, hvars, mvars, qvars, rvars, errorLogFile, errorLogExists, wvars, options, prevClean>>

InitLogger ==
  /\ errors = <<>>
  /\ errorLogFile = <<>>
  /\ errorLogExists = FALSE


\* no call has been made on the manager's checkpoint interface
NoManagerCall ==
  /\ lastCall = [op |-> "none", ledger |-> EmptyLedger]
  /\ lastSave = Undefined
  /\ ops = 0

\* watchForChanges has not been called
NotWatching ==
  /\ handlers = <<>>
  /\ delivered = 0

\* the application is used as a library: there is no command line and no
\* .imagerc
NoCommandLine ==
  /\ argv = {}
  /\ fileConfig = [qualityRules |-> JsUndefined, errorRecovery |-> Undefined]

\* processImages is not running
IdleApp ==
  /\ pc = "idle"
  /\ options = [forceReprocess |-> FALSE, pullLfs |-> FALSE,
                continueOnError |-> FALSE, resumeFlag |-> FALSE]
  /\ savedState = Undefined
  /\ startIndex = 0
  /\ i = 0
  /\ stats = ZeroStats
  /\ processedFiles = EmptyLedger
  /\ trace = <<>>
  /\ runs = 1
  /\ prevClean = FALSE
  /\ clearCalled = FALSE
  /\ NoManagerCall
  /\ NotWatching

IdleOrchestrator == IdleApp /\ NoCommandLine

\* a working directory with n inputs of the given kinds and no outputs
Directory(n, Dirs, Exts, FormatSets, Thumbnails, StateFiles) ==
  /\ \E dirs \in [1 .. n -> Dirs], exts \in [1 .. n -> Exts] :
       imageFiles = [k \in 1 .. n |-> [dir |-> dirs[k], name |-> k, ext |-> exts[k]]]
  /\ isPointer \in [1 .. n -> BOOLEAN]
  /\ inputMtime = [k \in 1 .. n |-> InputTime]
  /\ outputMtime = [p \in {} |-> Missing]
  /\ \E F \in FormatSets, t \in Thumbnails :
       config = [formats |-> F, generateThumbnails |-> t,
                 quality |-> DefaultQuality]
  /\ stateFile \in StateFiles

\* checkpoint files found at start: none, unreadable ones, one of the old
\* format (checkpoint.processedCount only) and ones of the current format left
\* by an interrupted run that had finished the first k files
FoundStateFiles(n) ==
  {AbsentStateFile,
   StateFileOf("invalid", Undefined, NoProgress, EmptyLedger),
   StateFileOf("version", Undefined, NoProgress, EmptyLedger)}
  \cup {StateFileOf("legacy", Some(k), NoProgress, EmptyLedger) : k \in 0 .. n}
  \cup {StateFileOf("v1", Undefined,
          Some([total |-> n, processed |-> k, succeeded |-> k, failed |-> 0,
                remaining |-> Num(n - k)]),
          [j \in 1 .. k |-> "success"]) : k \in 0 .. n}

\* no call has been made on the engine
NoCall ==
  /\ imagePath = <<>>
  /\ metadata = Undefined
  /\ defaultQuality = NoQuality
  /\ mergedQuality = NoQuality

\* the engine main constructs from the given config.qualityRules
EngineOf(ruleList) ==
  /\ qualityRules = ruleList
  /\ rules = sortRulesBySpecificity(ruleList)
  /\ qpc = "ready"
  /\ NoCall

\* the manager as the command line constructs it when no option is given
DefaultManager ==
  /\ continueOnError = ctor_continueOnError(Undefined)
  /\ maxRetries = ctor_maxRetries(Undefined)
  /\ retryDelay = ctor_retryDelay(Undefined)
  /\ exponentialBackoff = ctor_exponentialBackoff(Undefined)
  /\ rpc = "idle"
  /\ attempt = 0
  /\ lastError = NoError
  /\ ret = NoResult
  /\ opCalls = 0
  /\ retryableFails = 0
  /\ sleeps = <<>>
  /\ errorsAtEntry = 0
  /\ calls = 0

Init ==
  /\ DefaultManager
  /\ InitLogger
  /\ IdleOrchestrator
  /\ \E n \in 0 .. MaxFiles :
       Directory(n, {RootDir}, {".png"}, {{"webp"}}, {FALSE},
                 FoundStateFiles(n))
  /\ EngineOf(<<>>)

Next ==
  \/ StartRun
  \/ ProcessFile
  \/ FinishRun
  \/ NewProcess

Spec == Init /\ [][Next]_vars

\* the same program over a single input of every kind under every valid
\* formats/thumbnail configuration, in a directory without a checkpoint
InitPaths ==
  /\ DefaultManager
  /\ InitLogger
  /\ IdleOrchestrator
  /\ Directory(1, {RootDir, SubDir}, ImageExtensions,
               (SUBSET validFormats) \ {{}}, BOOLEAN, {AbsentStateFile})
  /\ EngineOf(<<>>)

SpecPaths == InitPaths /\ [][Next]_vars

\* a batch run over one .png or .jpg file, at the root or in a subdirectory,
\* under the default formats with quality rules configured
BatchRules ==
  {PatternRule(<<"*", ".", "p", "n", "g">>, QWebp(60)),
   PatternRule(<<"*", ".", "j", "p", "g">>, QJpeg(90)),
   DirectoryRule(<<"s", "u", "b">>, QWebpAvif(70, 55))}
BatchRuleLists ==
  {<<>>} \cup {<<r>> : r \in BatchRules}
  \cup {<<r, q>> : r \in BatchRules, q \in BatchRules}

InitQuality ==
  /\ DefaultManager
  /\ InitLogger
  /\ IdleOrchestrator
  /\ Directory(1, {RootDir, SubDir}, {".png", ".jpg"}, {DefaultFormats},
               {FALSE}, {AbsentStateFile})
  /\ \E l \in BatchRuleLists : EngineOf(l)

SpecQuality == InitQuality /\ [][Next]_vars

InitRecovery ==
  /\ \E o \in ContinueOnErrorOptions : continueOnError = ctor_continueOnError(o)
  /\ \E o \in MaxRetriesOptions : maxRetries = ctor_maxRetries(o)
  /\ \E o \in RetryDelayOptions : retryDelay = ctor_retryDelay(o)
  /\ \E o \in ExponentialBackoffOptions : exponentialBackoff = ctor_exponentialBackoff(o)
  /\ InitLogger
  /\ rpc = "idle"
  /\ attempt = 0
  /\ lastError = NoError
  /\ ret = NoResult
  /\ opCalls = 0
  /\ retryableFails = 0
  /\ sleeps = <<>>
  /\ errorsAtEntry = 0
  /\ calls = 0
  /\ IdleOrchestrator
  /\ Directory(0, {RootDir}, {".png"}, {DefaultFormats}, {TRUE}, {AbsentStateFile})
  /\ EngineOf(<<>>)

NextRecovery ==
  \/ PWR_Enter
  \/ PWR_OperationReturns
  \/ PWR_OperationThrows
  \/ PWR_SleepDone
  \/ PWR_NextCall

SpecRecovery == InitRecovery /\ [][NextRecovery]_vars

\* the fairness of one invocation: the awaited operation settles and the
\* timer of sleep fires
SpecRecoveryFair ==
  /\ SpecRecovery
  /\ WF_vars(PWR_OperationReturns \/ PWR_OperationThrows)
  /\ WF_vars(PWR_SleepDone)

\* ------------------------------------------------------------------------
\* The engine as a state machine
\* ------------------------------------------------------------------------
\* new QualityRulesEngine(rules)
QRE_Construct ==
  /\ qpc = "new"
  /\ rules' = sortRulesBySpecificity(qualityRules)
  /\ qpc' = "ready"
  /\ UNCHANGED <<qualityRules, imagePath, metadata, defaultQuality, mergedQuality,
                 rvars, lvars, wvars, ovars, cvars, hvars, mvars, mvars>>

\* getQualityForImage(imagePath, metadata, defaultQuality)
QRE_GetQualityForImage ==
  /\ qpc = "ready"
  /\ \E p \in ImagePaths, m \in Metadatas, d \in DefaultQualities :
       /\ imagePath' = p
       /\ metadata' = m
       /\ defaultQuality' = d
       /\ mergedQuality' = getQualityForImage(rules, p, m, d)
  /\ qpc' = "resolved"
  /\ UNCHANGED <<cvars, hvars, mvars, qualityRules, rules, rvars, lvars, wvars, ovars>>

InitRules ==
  /\ DefaultManager
  /\ InitLogger
  /\ IdleOrchestrator
  /\ Directory(0, {RootDir}, {".png"}, {DefaultFormats}, {TRUE}, {AbsentStateFile})
  /\ qualityRules \in ConfiguredRuleLists
  /\ rules = <<>>
  /\ qpc = "new"
  /\ NoCall

NextRules ==
  \/ QRE_Construct
  \/ QRE_GetQualityForImage

SpecRules == InitRules /\ [][NextRules]_vars

\* a batch run over one file at the root whose input may have disappeared
\* since the enumeration and whose outputs, where they exist, are older than,
\* as old as or newer than the input; a missing input does not read as a
\* pointer
InitTimestamps ==
  /\ DefaultManager
  /\ InitLogger
  /\ IdleOrchestrator
  /\ EngineOf(<<>>)
  /\ imageFiles = <<[dir |-> RootDir, name |-> 1, ext |-> ".png"]>>
  /\ \E F \in {{"webp"}, {"webp", "avif"}} :
       config = [formats |-> F, generateThumbnails |-> FALSE,
                 quality |-> DefaultQuality]
  /\ inputMtime \in [{1} -> {Missing, InputTime, WriteTime}]
  /\ isPointer \in [{1} -> BOOLEAN]
  /\ inputMtime[1] = Missing => ~isPointer[1]
  /\ \E S \in SUBSET generateConfiguredPaths(imageFiles[1]) :
       outputMtime \in [S -> Times]
  /\ stateFile = AbsentStateFile

SpecTimestamps == InitTimestamps /\ [][Next]_vars

\* ------------------------------------------------------------------------
\* The checkpoint interface of the ErrorRecoveryManager as a state machine:
\* managers created one after the other over the same checkpoint file
\* ------------------------------------------------------------------------
LedgerPaths == 1 .. 2
LedgerStatuses == {"success", "failed", "processed"}
TotalOptions == {Undefined, Some(MaxFiles)}
PendingOptions == {Undefined, Some(<<MaxFiles>>)}

\* what these calls leave alone
otherThanLedger ==
  <<pc, options, startIndex, i, stats, trace, runs, prevClean, clearCalled>>
otherThanStateFile == <<imageFiles, isPointer, inputMtime, outputMtime, config>>

\* the observation of a call
Called(op) ==
  /\ ops < MaxOps
  /\ ops' = ops + 1
  /\ lastCall' = [op |-> op, ledger |-> processedFiles]

\* recordProcessedFile(filePath, result)
ERM_RecordProcessedFile ==
  /\ Called("recordProcessedFile")
  /\ \E filePath \in LedgerPaths, status \in LedgerStatuses :
       processedFiles' = recordProcessedFile(processedFiles, filePath, status)
  /\ UNCHANGED <<lastSave, savedState, stateFile, otherThanLedger,
                 otherThanStateFile, rvars, lvars, qvars, hvars, mvars>>

\* saveState(state)
ERM_SaveState ==
  /\ Called("saveState")
  /\ \E total \in TotalOptions, pending \in PendingOptions :
       /\ stateFile' = saveStateWith(processedFiles, total, pending)
       /\ lastSave' = Some([ledger |-> processedFiles,
                            pending |-> pendingOr(pending)])
  /\ UNCHANGED <<savedState, processedFiles, otherThanLedger,
                 otherThanStateFile, rvars, lvars, qvars, hvars, mvars>>

\* loadState()
ERM_LoadState ==
  /\ Called("loadState")
  /\ savedState' = StatePersistence_load(stateFile)
  /\ processedFiles' =
       restoreLedger(processedFiles, StatePersistence_load(stateFile))
  /\ UNCHANGED <<lastSave, stateFile, otherThanLedger, otherThanStateFile,
                 rvars, lvars, qvars, hvars, mvars>>

\* clearState()
ERM_ClearState ==
  /\ Called("clearState")
  /\ stateFile' = AbsentStateFile
  /\ ErrorLogger_clear
  /\ processedFiles' = EmptyLedger
  /\ lastSave' = Undefined
  /\ UNCHANGED <<savedState, otherThanLedger, otherThanStateFile, rvars,
                 qvars, hvars, mvars>>

\* new ErrorRecoveryManager({stateFile}) over the same file
ERM_NewManager ==
  /\ Called("new")
  /\ processedFiles' = EmptyLedger
  /\ errors' = <<>>
  /\ savedState' = Undefined
  /\ UNCHANGED <<lastSave, stateFile, errorLogFile, errorLogExists,
                 otherThanLedger, otherThanStateFile, rvars, qvars, hvars, mvars>>

\* what a checkpoint file may have become when it is read: deleted, no longer
\* JSON, or the file of a tool of another version
UnusableStateFiles(file) ==
  {AbsentStateFile,
   StateFileOf("invalid", Undefined, NoProgress, EmptyLedger)}
  \cup (IF file.kind = "v1" THEN {[file EXCEPT !.kind = "version"]}
        ELSE {StateFileOf("version", Undefined, NoProgress, EmptyLedger)})

\* the file is replaced from outside the program
StateFileReplaced ==
  /\ Called("(replaced)")
  /\ stateFile' \in UnusableStateFiles(stateFile)
  /\ lastSave' = Undefined
  /\ UNCHANGED <<savedState, processedFiles, otherThanLedger,
                 otherThanStateFile, rvars, lvars, qvars, hvars, mvars>>

InitCheckpoint ==
  /\ DefaultManager
  /\ InitLogger
  /\ IdleOrchestrator
  /\ Directory(0, {RootDir}, {".png"}, {DefaultFormats}, {TRUE}, {AbsentStateFile})
  /\ EngineOf(<<>>)

NextCheckpoint ==
  \/ ERM_RecordProcessedFile
  \/ ERM_SaveState
  \/ ERM_LoadState
  \/ ERM_ClearState
  \/ ERM_NewManager
  \/ StateFileReplaced

SpecCheckpoint == InitCheckpoint /\ [][NextCheckpoint]_vars

\* ------------------------------------------------------------------------
\* watchForChanges: main calls it after processImages has returned; the
\* watcher then calls processFile for every add and change event, and nothing
\* awaits the promise processFile returns
\* ------------------------------------------------------------------------
\* an event for a file whose name is not an image's
OtherFile == 0
WatchActions == {"add", "change"}

\* the options processFile hands to optimizeImage
watchOptions == [forceReprocess |-> TRUE, pullLfs |-> options.pullLfs]

RemoveAt(seq, k) == SubSeq(seq, 1, k - 1) \o SubSeq(seq, k + 1, Len(seq))

\* the watcher emits an event: processFile runs up to its first await, the
\* one of getQualityForImage
Watch_Event ==
  /\ pc = "done"
  /\ delivered < MaxEvents
  /\ delivered' = delivered + 1
  /\ \E f \in DOMAIN imageFiles \cup {OtherFile}, action \in WatchActions :
       handlers' =
         IF f = OtherFile
           THEN \* the extension test fails: processFile returns
                handlers
           ELSE Append(handlers,
                  [file |-> f, action |-> action, stage |-> "resolving",
                   quality |->
                     getQualityForImage(rules, pathOf(imageFiles[f]),
                                        Undefined, NoQuality)])
  /\ UNCHANGED <<rvars, lvars, wvars, ovars, qvars, cvars, mvars>>

\* a processFile resumes after the first await: it merges the quality and
\* calls optimizeImage, which suspends at its first read of the file
Watch_OptimizeCalled ==
  \E k \in DOMAIN handlers :
    /\ handlers[k].stage = "resolving"
    /\ handlers' =
         [handlers EXCEPT ![k].stage = "optimizing",
                          ![k].quality = spread(config.quality, @)]
    /\ UNCHANGED <<delivered, rvars, lvars, wvars, ovars, qvars, cvars, mvars>>

\* optimizeImage of a processFile settles; processFile logs the result and
\* returns
Watch_Completed ==
  \E k \in DOMAIN handlers :
    /\ handlers[k].stage = "optimizing"
    /\ LET f == handlers[k].file IN
       \E o \in optimizeImageWith(f, watchOptions) :
         /\ isPointer' = [isPointer EXCEPT ![f] = o.pointer]
         /\ outputMtime' =
              [p \in DOMAIN outputMtime \cup o.writes |->
                 IF p \in o.writes THEN WriteTime ELSE outputMtime[p]]
    /\ handlers' = RemoveAt(handlers, k)
    /\ UNCHANGED <<delivered, imageFiles, inputMtime, config, stateFile,
                   rvars, lvars, ovars, qvars, cvars, mvars>>

\* watch mode over a directory of one or two files
InitWatch ==
  /\ DefaultManager
  /\ InitLogger
  /\ IdleOrchestrator
  /\ \E n \in 1 .. 2 :
       Directory(n, {RootDir}, {".png"}, {{"webp"}}, {FALSE}, {AbsentStateFile})
  /\ EngineOf(<<>>)

NextWatch ==
  \/ StartRun
  \/ ProcessFile
  \/ FinishRun
  \/ Watch_Event
  \/ Watch_OptimizeCalled
  \/ Watch_Completed

SpecWatch == InitWatch /\ [][NextWatch]_vars

\* a batch run over a directory of more than ten images, of which only the
\* first two may be LFS pointers
InitCadence ==
  /\ DefaultManager
  /\ InitLogger
  /\ IdleOrchestrator
  /\ EngineOf(<<>>)
  /\ imageFiles = [k \in 1 .. CadenceFiles |-> [dir |-> RootDir, name |-> k, ext |-> ".png"]]
  /\ \E P \in SUBSET {1, 2} : isPointer = [k \in 1 .. CadenceFiles |-> k \in P]
  /\ inputMtime = [k \in 1 .. CadenceFiles |-> InputTime]
  /\ outputMtime = [p \in {} |-> Missing]
  /\ config = [formats |-> {"webp"}, generateThumbnails |-> FALSE,
               quality |-> DefaultQuality]
  /\ stateFile = AbsentStateFile

NextCadence ==
  \/ StartRun
  \/ ProcessFile
  \/ FinishRun

SpecCadence == InitCadence /\ [][NextCadence]_vars

\* a new logger in a directory where an earlier process may have left an
\* error log
FoundLog ==
  /\ errors = <<>>
  /\ \E left \in {<<>>, <<errorEntry(1, ProcessingError, "processing_error", Undefined)>>} :
       /\ errorLogFile = left
       /\ errorLogExists = (left # <<>>)

\* batch runs on a disk that may refuse the writes of the checkpoint file and
\* of the error log
InitFaults ==
  /\ DefaultManager
  /\ FoundLog
  /\ IdleOrchestrator
  /\ EngineOf(<<>>)
  /\ \E n \in 1 .. MaxFiles :
       Directory(n, {RootDir}, {".png"}, {{"webp"}}, {FALSE}, {AbsentStateFile})

NextFaults ==
  \/ StartRun
  \/ ProcessFile
  \/ ProcessFile_WriteFails
  \/ FinishRun

SpecFaults == InitFaults /\ [][NextFaults]_vars

\* ------------------------------------------------------------------------
\* main: the command line, .imagerc and the options of the batch run
\* ------------------------------------------------------------------------
\* CliParser.hasFlag
hasFlag(args, flag) == flag \in args

\* CliParser.parse, the options processImages reads
parse(args) ==
  [forceReprocess |-> hasFlag(args, "--force"),
   pullLfs |-> hasFlag(args, "--pull-lfs"),
   continueOnError |-> hasFlag(args, "--continue-on-error"),
   resumeFlag |-> hasFlag(args, "--resume")]

\* options.continueOnError !== undefined ? options.continueOnError
\*   : (config.errorRecovery?.continueOnError !== undefined
\*        ? config.errorRecovery.continueOnError : true)
resolveContinueOnError(cli, errorRecovery) ==
  IF cli # Undefined THEN cli[1]
  ELSE IF errorRecovery # Undefined /\ errorRecovery[1].continueOnError # Undefined
    THEN errorRecovery[1].continueOnError[1]
  ELSE TRUE

\* resolvedOptions
resolvedOptions(args, cfg) ==
  [parse(args) EXCEPT !.continueOnError =
     resolveContinueOnError(Some(parse(args).continueOnError), cfg.errorRecovery)]

\* configLoader.loadConfig(): validateConfig throws and main exits, or the
\* merged configuration is returned
Main_LoadConfig ==
  /\ qpc = "loading"
  /\ IF validateQualityRules(fileConfig.qualityRules) = "ok"
       THEN /\ qualityRules' = engineRules(fileConfig.qualityRules)
            /\ qpc' = "new"
       ELSE /\ qpc' = "rejected"
            /\ UNCHANGED qualityRules
  /\ UNCHANGED <<rules, imagePath, metadata, defaultQuality, mergedQuality,
                 rvars, lvars, wvars, ovars, cvars, hvars, mvars>>

\* main constructs the manager and the engine; the configurations name no
\* retry settings and the command line's defaults are the manager's
Main_Construct ==
  /\ qpc = "new"
  /\ continueOnError' =
       ctor_continueOnError(Some(resolvedOptions(argv, fileConfig).continueOnError))
  /\ maxRetries' = ctor_maxRetries(Some(DefaultMaxRetries))
  /\ retryDelay' = ctor_retryDelay(Some(DefaultRetryDelay))
  /\ exponentialBackoff' = ctor_exponentialBackoff(Undefined)
  /\ rules' = sortRulesBySpecificity(qualityRules)
  /\ qpc' = "ready"
  /\ UNCHANGED <<qualityRules, imagePath, metadata, defaultQuality, mergedQuality,
                 rpc, attempt, lastError, ret, opCalls, retryableFails, sleeps,
                 errorsAtEntry, calls, lvars, wvars, ovars, cvars, hvars, mvars>>

\* app.processImages(resolvedOptions)
Main_ProcessImages ==
  /\ qpc = "ready"
  /\ StartRunWith(resolvedOptions(argv, fileConfig))

\* rule objects of .imagerc: every kind of pattern, directory, size bound and
\* quality the validation tells apart
RawQualities ==
  {JsUndefined, JsNull, JsNumber(80), JsObject(NoQuality),
   JsObject(QWebp(JsString(<<"8", "0">>)))}
  \cup {JsObject(QWebp(JsNumber(q))) : q \in {0, 1, 100, 101}}
RawRuleObjects ==
  {JsObject(r) :
     r \in [pattern : {JsUndefined, JsString(<<>>), JsString(<<"*">>), JsNumber(1)},
            directory : {JsUndefined, JsString(<<"a">>)},
            minWidth : {JsUndefined, JsNumber(0), JsNumber(MaxDim), JsString(<<"1">>)},
            minHeight : {JsUndefined},
            maxWidth : {JsUndefined},
            maxHeight : {JsUndefined, JsNumber(-1)},
            quality : RawQualities]}
ValidRawRule ==
  JsObject([pattern |-> JsString(<<"*">>), directory |-> JsUndefined,
            minWidth |-> JsUndefined, minHeight |-> JsUndefined,
            maxWidth |-> JsUndefined, maxHeight |-> JsUndefined,
            quality |-> JsObject(QWebp(JsNumber(60)))])

\* the qualityRules of .imagerc: missing, not an array, an array with an
\* element that is no object, arrays of one rule, and arrays in which a valid
\* rule comes before or after another rule
RawQualityRules ==
  {JsUndefined, JsObject(ValidRawRule.val), JsArray(<<>>), JsArray(<<JsString(<<"*">>)>>),
   JsArray(<<JsNull>>)}
  \cup {JsArray(<<r>>) : r \in RawRuleObjects}
  \cup {JsArray(<<ValidRawRule, r>>) : r \in RawRuleObjects}
  \cup {JsArray(<<r, ValidRawRule>>) : r \in RawRuleObjects}

ErrorRecoveryConfigs ==
  {Undefined, Some([continueOnError |-> Undefined])}
  \cup {Some([continueOnError |-> Some(b)]) : b \in BOOLEAN}

\* configurations that differ in their rules, and configurations without
\* rules that differ in errorRecovery
FileConfigs ==
  {[qualityRules |-> qr, errorRecovery |-> Undefined] : qr \in RawQualityRules}
  \cup {[qualityRules |-> JsUndefined, errorRecovery |-> er] : er \in ErrorRecoveryConfigs}

CommandLines == SUBSET {"--continue-on-error", "--resume"}

\* main is started in a working directory with one or two images
InitConfig ==
  /\ DefaultManager
  /\ InitLogger
  /\ IdleApp
  /\ argv \in CommandLines
  /\ fileConfig \in FileConfigs
  /\ \E n \in 1 .. 2 :
       Directory(n, {RootDir}, {".png"}, {{"webp"}}, {FALSE}, {AbsentStateFile})
  /\ qualityRules = <<>>
  /\ rules = <<>>
  /\ qpc = "loading"
  /\ NoCall

NextConfig ==
  \/ Main_LoadConfig
  \/ Main_Construct
  \/ Main_ProcessImages
  \/ ProcessFile
  \/ FinishRun

SpecConfig == InitConfig /\ [][NextConfig]_vars

\* ========================================================================
\* Properties
\* ========================================================================
Terminal == rpc \in {"returned", "thrown"}
TerminalFailure == Terminal /\ ~ret.success
NewEntries == Len(errors) - errorsAtEntry

\* the progress.processed of the checkpoint this run loaded (current format)
LoadedNewFormat ==
  /\ savedState # Undefined
  /\ savedState[1].checkpoint = Undefined
  /\ savedState[1].progress # Undefined
LoadedProcessed == savedState[1].progress[1].processed

Failed(result) == result \in {"error", "lfs-error"}
SomeFileFailed == \E j \in DOMAIN trace : Failed(trace[j].result)

\* C1: a resumed run that loaded a checkpoint with progress.processed = k
\* visits the files k+1, k+2, ... of the enumeration (indices k..n-1 counted
\* from zero) in order and nothing before them: every LFS check, timestamp
\* check, codec call and ledger write of the run belongs to one of these
\* visits; a run that returns has visited all of them.
C1_ResumeByCount ==
  (pc \in {"loop", "done", "failed"} /\ options.resumeFlag /\ LoadedNewFormat) =>
    /\ startIndex = LoadedProcessed
    /\ \A j \in DOMAIN trace :
         /\ trace[j].file = LoadedProcessed + j
         /\ trace[j].file <= Len(imageFiles)
    /\ (pc = "done" =>
          Len(trace) = IF LoadedProcessed >= Len(imageFiles) THEN 0
                       ELSE Len(imageFiles) - LoadedProcessed)

C1_Witness ==
  /\ pc = "done"
  /\ options.resumeFlag
  /\ LoadedNewFormat
  /\ LoadedProcessed = 1
  /\ Len(trace) >= 2
  /\ trace[1].file = 2
  /\ trace[1].recorded

\* C2: after a run in which every file ended processed or skipped, a run
\* without force-reprocess over the unchanged inputs skips every file and
\* invokes neither the codec nor the file copy.
C2_Idempotence ==
  (pc = "loop" /\ prevClean /\ ~options.forceReprocess) =>
    \A j \in DOMAIN trace :
      /\ trace[j].result = "skipped"
      /\ ~trace[j].codec
      /\ ~trace[j].copy

\* C3 as stated: whenever processImages returns with no failed file, the
\* checkpoint file and the error log file do not exist and the ledger and the
\* in-memory error list are empty.
C3_CleanCompletionAlways ==
  (pc = "done" /\ ~SomeFileFailed /\ stats.errors = 0) =>
    /\ stateFile.kind = "absent"
    /\ ~errorLogExists
    /\ processedFiles = EmptyLedger
    /\ errors = <<>>

\* C3 amended: the same for a run over at least one enumerated file.
C3_CleanCompletion ==
  (pc = "done" /\ Len(imageFiles) > 0 /\ ~SomeFileFailed /\ stats.errors = 0) =>
    /\ clearCalled
    /\ stateFile.kind = "absent"
    /\ ~errorLogExists
    /\ errorLogFile = <<>>
    /\ processedFiles = EmptyLedger
    /\ errors = <<>>

\* a clean run that found a checkpoint when it started
C3_Witness ==
  /\ pc = "done"
  /\ savedState # Undefined
  /\ Len(trace) >= 1
  /\ ~SomeFileFailed
  /\ stats.processed >= 1
  /\ stateFile.kind = "absent"
  /\ ~errorLogExists

\* C4: a run in which a file ended Failed (a processing error or an LFS
\* error) does not invoke clearState, and when it returns the checkpoint file
\* exists.
C4_RetentionOnFailure ==
  (pc = "done" /\ SomeFileFailed) =>
    /\ ~clearCalled
    /\ stateFile.kind = "v1"

\* C5: an invocation that succeeds after k retryable failures returns
\* success with attempts = k + 1, having called the operation k + 1 times, and
\* adds nothing to the error list or the log file; after k < maxRetries
\* retryable failures the next attempt is always made.
C5_RetryThenSucceed ==
  /\ (Terminal /\ ret.success) =>
       /\ rpc = "returned"
       /\ retryableFails < maxRetries
       /\ ret.attempts = retryableFails + 1
       /\ opCalls = retryableFails + 1
       /\ NewEntries = 0
       /\ Len(errorLogFile) = errorsAtEntry
  /\ (rpc = "sleeping") => (retryableFails < maxRetries /\ attempt = retryableFails)

C5_Witness ==
  /\ rpc = "returned"
  /\ ret.success
  /\ retryableFails = 2
  /\ ret.attempts = 3
  /\ maxRetries = 3

\* C6: with continueOnError, a non-retryable failure ends the invocation:
\* no attempt and no sleep follows it; on the first attempt the result is
\* failure with that error and attempts = 1, one call, one new log entry.
C6_NonRetryableFailure ==
  (continueOnError /\ rpc # "idle" /\ opCalls > 0 /\ lastError # NoError
     /\ ~(lastError.code \in retryableErrors) /\ ~lastError.lfsMessage) =>
    /\ rpc = "returned"
    /\ ret = [kind |-> "returned", success |-> FALSE, error |-> lastError,
              attempts |-> opCalls]
    /\ Len(sleeps) = opCalls - 1
    /\ NewEntries = 1
    /\ (retryableFails = 0 => (ret.attempts = 1 /\ opCalls = 1 /\ sleeps = <<>>))

C6_Witness ==
  /\ continueOnError
  /\ rpc = "returned"
  /\ opCalls = 1
  /\ lastError.code = "EINVAL"
  /\ ~lastError.lfsMessage
  /\ ~ret.success
  /\ maxRetries = 3

LoggedOnceForFinalFailure ==
  /\ (Terminal /\ ret.success) => NewEntries = 0
  /\ (rpc \in {"attempting", "sleeping"}) => NewEntries = 0
  /\ TerminalFailure =>
       /\ NewEntries = 1
       /\ errors[Len(errors)].retryCount = opCalls
       /\ errors[Len(errors)].error = lastError

\* C7 as stated: every invocation that ends in failure has added exactly
\* one log entry, whose retryCount is the number of the failed final attempt;
\* none is added on success or for a retried attempt.
C7_OneEntryAlways == LoggedOnceForFinalFailure

\* C7 amended: the same for a manager with maxRetries >= 1.
C7_OneEntryPerUnit == (maxRetries >= 1) => LoggedOnceForFinalFailure

C7_Witness ==
  /\ TerminalFailure
  /\ maxRetries = 3
  /\ opCalls = 3
  /\ errorsAtEntry = 1
  /\ Len(errors) = 2
  /\ errors[2].retryCount = 3

\* C8: for maxRetries >= 1 the operation is called at most maxRetries times,
\* an invocation whose every attempt fails with a retryable error calls it
\* exactly maxRetries times and ends with attempts = maxRetries and the last
\* error, and every invocation reaches a terminal outcome.
C8_BoundedRetry ==
  /\ [](maxRetries >= 1 =>
          /\ opCalls <= maxRetries
          /\ attempt <= maxRetries
          /\ (TerminalFailure /\ isRetryable(lastError)) =>
               /\ opCalls = maxRetries
               /\ retryableFails = maxRetries - 1
               /\ ret.attempts = maxRetries
               /\ ret.error = lastError)
  /\ ((maxRetries >= 1 /\ rpc \in {"attempting", "sleeping"}) ~> Terminal)

C8_Witness ==
  /\ TerminalFailure
  /\ maxRetries = 2
  /\ opCalls = 2
  /\ lastError.code = "ETIMEDOUT"
  /\ ret.attempts = 2

FailureLoggedThenRaisedOrReturned ==
  TerminalFailure =>
    /\ NewEntries = 1
    /\ errors[Len(errors)].error = ret.error
    /\ ret.error = lastError
    /\ ret.attempts = opCalls
    /\ (continueOnError => rpc = "returned")
    /\ (~continueOnError => rpc = "thrown")

\* C9 as stated: every terminal failure has written its error to the log,
\* and is thrown when continueOnError is false and returned with the error
\* and the attempt count when it is true.
C9_FatalOrContainedAlways == FailureLoggedThenRaisedOrReturned

\* C9 amended: the same for a manager with maxRetries >= 1.
C9_FatalOrContained == (maxRetries >= 1) => FailureLoggedThenRaisedOrReturned

C9_Witness ==
  /\ rpc = "thrown"
  /\ ~continueOnError
  /\ maxRetries >= 1
  /\ ret.error.code = "EINVAL"
  /\ Len(errors) = errorsAtEntry + 1
  /\ errors[Len(errors)].error = ret.error

\* C10: the n-th sleep of an invocation is retryDelay * 2^(n-1) with
\* exponential backoff and retryDelay without; one sleep precedes every
\* attempt but the first and none follows the last; with maxRetries = 3 and
\* retryDelay = 50 an always-failing retryable operation sleeps 50, 100 with
\* backoff and 50, 50 without.
C10_BackoffSchedule ==
  /\ \A n \in DOMAIN sleeps :
       sleeps[n] = IF exponentialBackoff THEN retryDelay * (2 ^ (n - 1))
                   ELSE retryDelay
  /\ (rpc = "attempting") => Len(sleeps) = opCalls
  /\ (rpc = "sleeping") => (Len(sleeps) = opCalls /\ opCalls < maxRetries)
  /\ (Terminal /\ opCalls > 0) => Len(sleeps) = opCalls - 1
  /\ (TerminalFailure /\ maxRetries = 3 /\ retryDelay = 50 /\ opCalls = 3) =>
       sleeps = IF exponentialBackoff THEN <<50, 100>> ELSE <<50, 50>>

C10_Witness ==
  /\ TerminalFailure
  /\ maxRetries = 3
  /\ retryDelay = 50
  /\ exponentialBackoff
  /\ opCalls = 3
  /\ sleeps = <<50, 100>>

\* ------------------------------------------------------------------------
\* The rule engine
\* ------------------------------------------------------------------------
Resolved == qpc = "resolved"

\* the positions in the configured list of the rules that match the file of
\* the call, and of those among them that set a format key
Matching ==
  {j \in DOMAIN qualityRules : ruleMatches(qualityRules[j], imagePath, metadata)}
MatchingWithKey(key) == {j \in Matching : key \in DOMAIN qualityRules[j].quality}
ScoreOf(j) == getSpecificityScore(qualityRules[j])
DistinctScores(S) == \A j, k \in S : j # k => ScoreOf(j) # ScoreOf(k)
MostSpecific(S) == {j \in S : \A k \in S : ScoreOf(k) <= ScoreOf(j)}

\* C11: when the matching rules have pairwise distinct scores, the key set of
\* the result is the union of the defaults' keys and the matching rules'
\* quality keys, and each key holds the value of the most specific matching
\* rule that sets it, or the default value when no matching rule sets it.
C11_MergeBySpecificity ==
  (Resolved /\ DistinctScores(Matching)) =>
    /\ DOMAIN mergedQuality =
         DOMAIN defaultQuality
         \cup UNION {DOMAIN qualityRules[j].quality : j \in Matching}
    /\ \A key \in DOMAIN mergedQuality :
         IF MatchingWithKey(key) = {}
           THEN mergedQuality[key] = defaultQuality[key]
           ELSE \A j \in MostSpecific(MatchingWithKey(key)) :
                  mergedQuality[key] = qualityRules[j].quality[key]

\* a general pattern rule and a pattern-and-directory rule both match: webp
\* comes from the more specific rule, avif survives from the general one and
\* jpeg from the defaults
C11_Witness ==
  /\ Resolved
  /\ Len(qualityRules) = 2
  /\ Cardinality(Matching) = 2
  /\ DistinctScores(Matching)
  /\ defaultQuality = DefaultQuality
  /\ mergedQuality = [k \in {"webp", "avif", "jpeg"} |->
                        CASE k = "webp" -> 95 [] k = "avif" -> 55 [] OTHER -> 80]

\* C12: with an empty rule set, or when no rule matches the file, the result
\* equals the defaults.
C12_IdentityLaw ==
  (Resolved /\ Matching = {}) => mergedQuality = defaultQuality

C12_Witness ==
  /\ Resolved
  /\ Len(qualityRules) = 2
  /\ Matching = {}
  /\ defaultQuality = DefaultQuality
  /\ mergedQuality = DefaultQuality

\* the matching rules of highest score among those that set the key, when
\* there are several of them
TiedFor(key) == MostSpecific(MatchingWithKey(key))
First(S) == CHOOSE j \in S : \A k \in S : j <= k
Last(S) == CHOOSE j \in S : \A k \in S : k <= j

\* C13 as stated: of two matching rules of equal score that set the same key,
\* the one declared later gives the resolved value.
C13_LaterDeclaredWins ==
  Resolved =>
    \A key \in DOMAIN mergedQuality :
      Cardinality(TiedFor(key)) >= 2 =>
        mergedQuality[key] = qualityRules[Last(TiedFor(key))].quality[key]

\* C13 amended: of the matching rules of equal, highest score that set the
\* same key, the one declared first gives the resolved value.
C13_EarlierDeclaredWins ==
  Resolved =>
    \A key \in DOMAIN mergedQuality :
      Cardinality(TiedFor(key)) >= 2 =>
        mergedQuality[key] = qualityRules[First(TiedFor(key))].quality[key]

\* the patterns *.b and ?.b have the same score and both match a.b
C13_Witness ==
  /\ Resolved
  /\ Cardinality(TiedFor("webp")) >= 2
  /\ qualityRules[First(TiedFor("webp"))].quality["webp"]
       # qualityRules[Last(TiedFor("webp"))].quality["webp"]
  /\ mergedQuality["webp"] = qualityRules[First(TiedFor("webp"))].quality["webp"]

HasPatternAndDirectory(rule) ==
  TruthyString(rule.pattern) /\ TruthyString(rule.directory)
HasOnlyPattern(rule) ==
  TruthyString(rule.pattern) /\ ~TruthyString(rule.directory) /\ ~hasSizeRule(rule)
HasOnlyDirectory(rule) ==
  ~TruthyString(rule.pattern) /\ TruthyString(rule.directory) /\ ~hasSizeRule(rule)

\* C14: a rule with a pattern and a directory scores strictly higher than
\* every rule with only a pattern and every rule with only a directory, and on
\* a file that both match its value wins on a key both set.
C14_CombinedDominates ==
  \A j, k \in DOMAIN qualityRules :
    (/\ HasPatternAndDirectory(qualityRules[j])
     /\ (HasOnlyPattern(qualityRules[k]) \/ HasOnlyDirectory(qualityRules[k]))) =>
      /\ ScoreOf(j) > ScoreOf(k)
      /\ (Resolved /\ Len(qualityRules) = 2 /\ Matching = {j, k}) =>
           \A key \in DOMAIN qualityRules[j].quality
                        \cap DOMAIN qualityRules[k].quality :
             mergedQuality[key] = qualityRules[j].quality[key]

\* a call on an engine configured with a single rule, and whether that rule
\* contributed its quality map (its webp value differs from the default one)
SingleRule == qualityRules[1]
ResolvedSingle == Resolved /\ Len(qualityRules) = 1
Applied == mergedQuality # defaultQuality

\* the rule's directory and the path with forward slashes, the directory
\* without its trailing slash
DirectoryName ==
  LET dir == normalizeSeparators(SingleRule.directory[1])
  IN  IF dir # <<>> /\ dir[Len(dir)] = "/" THEN SubSeq(dir, 1, Len(dir) - 1) ELSE dir
NormalizedPath == normalizeSeparators(imagePath)

\* the places of the path where the directory name occurs and is followed by
\* a slash
SlashTerminated ==
  {p \in 0 .. Len(NormalizedPath) - Len(DirectoryName) - 1 :
     /\ \A k \in 1 .. Len(DirectoryName) : NormalizedPath[p + k] = DirectoryName[k]
     /\ NormalizedPath[p + Len(DirectoryName) + 1] = "/"}

\* C15: a directory rule matches only a path in which the directory, written
\* with either separator and with or without a trailing slash, occurs
\* followed by a slash; an occurrence followed by more characters of the same
\* segment does not count.
C15_NoLongerSibling ==
  (ResolvedSingle /\ TruthyString(SingleRule.directory) /\ Applied) =>
    SlashTerminated # {}

\* the rule for "a" is asked about ab/a.b and does not match
C15_Witness ==
  /\ ResolvedSingle
  /\ SingleRule.directory = Some(<<"a">>)
  /\ ~TruthyString(SingleRule.pattern)
  /\ ~hasSizeRule(SingleRule)
  /\ imagePath = <<"a", "b", "/", "a", ".", "b">>
  /\ ~Applied

\* C16: a directory rule matches only a path in which the directory occurs as
\* a run of whole segments: it starts at the beginning of the path or right
\* after a slash, and is followed by a slash.
C16_SegmentBoundaries ==
  (ResolvedSingle /\ TruthyString(SingleRule.directory) /\ Applied) =>
    \E p \in SlashTerminated : p = 0 \/ NormalizedPath[p] = "/"

BoundsOf(rule) == {rule.minWidth, rule.minHeight, rule.maxWidth, rule.maxHeight}
DimensionsSupplied ==
  /\ metadata # Undefined
  /\ metadata[1].width # Undefined
  /\ metadata[1].height # Undefined
WithinBounds(rule) ==
  /\ rule.minWidth # Undefined => metadata[1].width[1] >= rule.minWidth[1]
  /\ rule.minHeight # Undefined => metadata[1].height[1] >= rule.minHeight[1]
  /\ rule.maxWidth # Undefined => metadata[1].width[1] <= rule.maxWidth[1]
  /\ rule.maxHeight # Undefined => metadata[1].height[1] <= rule.maxHeight[1]
OnlySize(rule) == ~TruthyString(rule.pattern) /\ ~TruthyString(rule.directory)


\* the three clauses of a rule as the rule's fields give them
PatternClause(rule, imgPath) ==
  ~TruthyString(rule.pattern) \/ minimatch(basename(imgPath), rule.pattern[1])
DirectoryClause(rule, imgPath) ==
  ~TruthyString(rule.directory) \/ matchesDirectory(imgPath, rule.directory[1])

\* C17: a rule without a size bound passes the size clause; a rule with a
\* size bound does not match when no metadata is given; with width and height
\* given, the size clause holds exactly when every bound of the rule holds.
C17_SizeMatching ==
  ResolvedSingle =>
    LET others == /\ PatternClause(SingleRule, imagePath)
                  /\ DirectoryClause(SingleRule, imagePath)
    IN  /\ BoundsOf(SingleRule) = {Undefined} => (Applied <=> others)
        /\ (BoundsOf(SingleRule) # {Undefined} /\ metadata = Undefined) => ~Applied
        /\ DimensionsSupplied => (Applied <=> (others /\ WithinBounds(SingleRule)))

\* a rule with maxWidth 1 is asked about an image of width 2 and does not
\* match
C17_Witness ==
  /\ ResolvedSingle
  /\ OnlySize(SingleRule)
  /\ SingleRule.maxWidth = Some(1)
  /\ SingleRule.minWidth = Undefined
  /\ SingleRule.minHeight = Undefined
  /\ SingleRule.maxHeight = Undefined
  /\ DimensionsSupplied
  /\ metadata[1].width = Some(2)
  /\ ~Applied

C19_ResolvedQualityReachesCodec ==
  \A j \in DOMAIN trace :
    trace[j].codec =>
      \A k \in DOMAIN trace[j].configs :
        LET c == trace[j].configs[k] IN
        (/\ c.output # "thumbnail"
         /\ c.quality # Undefined
         /\ c.format \in DOMAIN trace[j].quality) =>
          c.quality = Some(trace[j].quality[c.format])

\* C20: a file's codec call is made through processWithRecovery: once the
\* codec has been called for a file of the run, the recovery manager has been
\* entered.
C20_BatchThroughRecovery ==
  (\E j \in DOMAIN trace : trace[j].codec) => calls >= 1

\* ------------------------------------------------------------------------
\* The batch run: the error log and the containment of per-file errors
\* ------------------------------------------------------------------------
\* the entries this process has logged for the f-th enumerated file
EntriesFor(f) == Cardinality({k \in DOMAIN errors : errors[k].file = f})

\* C21: in a batch run, every file that ended Failed (a processing error or
\* an LFS error) has exactly one entry in the error log, whether the run
\* continues after it or aborts.
C21_LoggedExactlyOnce ==
  \A j \in DOMAIN trace :
    Failed(trace[j].result) => EntriesFor(trace[j].file) = 1

\* the run visits the files from the start index on, once each, in the order
\* of the enumeration
VisitedInOrder == \A j \in DOMAIN trace : trace[j].file = startIndex + j

C22_ContinuedAfterFailure ==
  /\ options.continueOnError
  /\ pc = "done"
  /\ Len(trace) = 3
  /\ trace[1].result = "error"
  /\ trace[3].result = "processed"

\* ------------------------------------------------------------------------
\* The checkpoint's progress record
\* ------------------------------------------------------------------------
\* this step writes a checkpoint
CheckpointWritten == stateFile' # stateFile /\ stateFile'.kind = "v1"
WrittenProgress == stateFile'.progress[1]

\* C23: every checkpoint a batch run writes has progress.total equal to the
\* number of enumerated files and progress.processed + progress.remaining
\* equal to progress.total.
C23_ProgressTotals ==
  [][CheckpointWritten =>
       /\ WrittenProgress.total = Len(imageFiles)
       /\ ~WrittenProgress.remaining.nan
       /\ WrittenProgress.processed + WrittenProgress.remaining.v
            = WrittenProgress.total]_vars

\* C24: every checkpoint written by saveState has progress.succeeded +
\* progress.failed equal to progress.processed.
C24_ProgressOutcomes ==
  [][CheckpointWritten =>
       WrittenProgress.succeeded + WrittenProgress.failed
         = WrittenProgress.processed]_vars

\* ------------------------------------------------------------------------
\* The checkpoint round trip
\* ------------------------------------------------------------------------
\* a load made by a new manager from the file the last saveState wrote
LoadedAfterSave ==
  /\ lastCall.op = "loadState"
  /\ lastCall.ledger = EmptyLedger
  /\ lastSave # Undefined

\* C25: saveState writes the whole ledger whatever the file held before, and
\* a loadState of that file in a new manager returns progress.processed equal
\* to the size of the ledger at the save and the pending list that was saved,
\* and leaves the manager with exactly the saved paths, each with its saved
\* status.
C25_CheckpointRoundTrip ==
  /\ (lastCall.op = "saveState" /\ lastSave # Undefined) =>
       /\ stateFile.kind = "v1"
       /\ stateFile.processed = processedFiles
       /\ stateFile.progress[1].processed = Cardinality(DOMAIN processedFiles)
  /\ LoadedAfterSave =>
       /\ savedState # Undefined
       /\ savedState[1].progress[1].processed
            = Cardinality(DOMAIN lastSave[1].ledger)
       /\ savedState[1].pending = lastSave[1].pending
       /\ processedFiles = lastSave[1].ledger

\* a new manager has loaded a checkpoint of two files with different statuses
\* and a pending list
C25_Witness ==
  /\ LoadedAfterSave
  /\ DOMAIN lastSave[1].ledger = LedgerPaths
  /\ lastSave[1].ledger[1] = "success"
  /\ lastSave[1].ledger[2] = "failed"
  /\ lastSave[1].pending # <<>>
  /\ processedFiles = lastSave[1].ledger

\* the last call was a loadState and the file it read was unusable
LoadedUnusable ==
  /\ lastCall.op = "loadState"
  /\ stateFile.kind \in {"absent", "invalid", "version"}

\* C26: a loadState that finds the checkpoint file missing, not JSON or of
\* another version returns null, leaves the ledger as it was, and the start
\* index a resume run computes from its result is 0.
C26_UnusableIsAbsent ==
  LoadedUnusable =>
    /\ savedState = Undefined
    /\ processedFiles = lastCall.ledger
    /\ computeStartIndex(TRUE, savedState) = 0

\* a manager holding one file has read a checkpoint of another version that
\* records progress
C26_Witness ==
  /\ LoadedUnusable
  /\ stateFile.kind = "version"
  /\ stateFile.progress # Undefined
  /\ stateFile.progress[1].processed >= 1
  /\ lastCall.ledger # EmptyLedger
  /\ savedState = Undefined

\* ------------------------------------------------------------------------
\* The per-file decisions of optimizeImage
\* ------------------------------------------------------------------------
\* this step visits a file; the entry it adds to the trace
FileVisited == Len(trace') = Len(trace) + 1
Visited == trace'[Len(trace')]

\* some configured output of the f-th file is missing or older than the input
StaleOutput(f) ==
  \E p \in generateConfiguredPaths(imageFiles[f]) :
    getModTime(p) = Missing \/ getModTime(p) < inputMtime[f]

\* C27: when the timestamp check is reached, a file is processed whenever
\* force-reprocess is set, and then no modification time is read; without
\* force-reprocess a file whose input exists is processed if and only if one
\* of its configured outputs is missing or older than the input, and skipped
\* when every output exists and is not older.
C27_NeedsProcessing ==
  [][(FileVisited /\ Visited.tsCheck) =>
       /\ options.forceReprocess =>
            (Visited.result # "skipped" /\ ~Visited.stat)
       /\ (~options.forceReprocess /\ inputMtime[Visited.file] # Missing) =>
            /\ Visited.stat
            /\ (Visited.result # "skipped") <=> StaleOutput(Visited.file)]_vars

\* a file with two outputs, both newer than the input, was skipped
C27_Witness ==
  /\ Len(trace) = 1
  /\ ~options.forceReprocess
  /\ trace[1].tsCheck
  /\ trace[1].result = "skipped"
  /\ inputMtime[1] = InputTime
  /\ Cardinality(generateConfiguredPaths(imageFiles[1])) = 2
  /\ \A p \in generateConfiguredPaths(imageFiles[1]) : getModTime(p) > InputTime

\* C28: without force-reprocess, a file whose input is missing is not handed
\* to the codec, ends Failed and is counted among the failures of the run.
C28_MissingInputFails ==
  \A j \in DOMAIN trace :
    (~options.forceReprocess /\ inputMtime[trace[j].file] = Missing) =>
      /\ ~trace[j].codec
      /\ Failed(trace[j].result)
      /\ stats.errors + stats.lfsErrors >= 1

\* C29: a file that is a pointer and is not pulled ends 'lfs-pointer' with no
\* pull, no timestamp check and no codec call; one that is pulled and is
\* still a pointer ends 'lfs-error' without timestamp check or codec call;
\* the timestamp check and the codec are reached only by a file that is not a
\* pointer (any more).
C29_LfsGate ==
  \A j \in DOMAIN trace :
    /\ (trace[j].wasPointer /\ ~options.pullLfs) =>
         /\ trace[j].result = "lfs-pointer"
         /\ ~trace[j].pulled
         /\ ~trace[j].tsCheck /\ ~trace[j].codec /\ ~trace[j].copy
    /\ (trace[j].wasPointer /\ options.pullLfs) =>
         /\ trace[j].pulled
         /\ trace[j].pointer =>
              /\ trace[j].result = "lfs-error"
              /\ ~trace[j].tsCheck /\ ~trace[j].codec /\ ~trace[j].copy
    /\ (trace[j].tsCheck \/ trace[j].codec \/ trace[j].copy) =>
         ~trace[j].pointer
    /\ ~trace[j].wasPointer => ~trace[j].pulled

\* a run with auto-pull in which one pointer could not be pulled and another
\* was pulled and processed
C29_Witness ==
  /\ options.pullLfs
  /\ Len(trace) >= 2
  /\ trace[1].wasPointer /\ trace[1].result = "lfs-error"
  /\ trace[2].wasPointer /\ trace[2].pulled /\ trace[2].codec
  /\ ~trace[2].pointer

\* a run without auto-pull that left a pointer alone
C29_PointerSkipped ==
  /\ ~options.pullLfs
  /\ Len(trace) >= 1
  /\ trace[1].wasPointer /\ trace[1].result = "lfs-pointer"
  /\ isPointer[1]

\* ------------------------------------------------------------------------
\* Watch mode
\* ------------------------------------------------------------------------
\* C30: at no time are two per-file processings of watch mode in flight:
\* every processFile has completed before the next one begins.
C30_WatchSerialized == Len(handlers) <= 1

\* the configuration was accepted by loadConfig, or rejected
Accepted == qpc \notin {"loading", "rejected"}
Rejected == qpc = "rejected"
ConfiguredRules ==
  IF fileConfig.qualityRules.type = "array" THEN fileConfig.qualityRules.val ELSE <<>>

\* the parts of the rule invariant
HasConstraint(rule) ==
  /\ rule.type = "object"
  /\ \/ truthy(rule.val.pattern) \/ truthy(rule.val.directory)
     \/ \E k \in DOMAIN sizeProps : truthy(rule.val[sizeProps[k]])
HasQualityMap(rule) == rule.type = "object" /\ rule.val.quality.type = "object"
QualityNonEmpty(rule) == HasQualityMap(rule) /\ DOMAIN rule.val.quality.val # {}
QualityInRange(rule) ==
  /\ HasQualityMap(rule)
  /\ \A format \in DOMAIN rule.val.quality.val :
       /\ rule.val.quality.val[format].type = "number"
       /\ rule.val.quality.val[format].val \in 1 .. 100
RuleInvariant(rule) ==
  HasConstraint(rule) /\ QualityNonEmpty(rule) /\ QualityInRange(rule)

\* C31: every rule of an accepted configuration has a pattern, directory or
\* size constraint, a non-empty quality map and quality values in [1,100],
\* and a configuration with a rule that violates one of these is rejected.
C31_RuleInvariantEnforced ==
  /\ Accepted => \A k \in DOMAIN ConfiguredRules : RuleInvariant(ConfiguredRules[k])
  /\ (qpc # "loading" /\ \E k \in DOMAIN ConfiguredRules :
                            ~RuleInvariant(ConfiguredRules[k])) => Rejected

\* the continueOnError value of .imagerc, if it names one
ConfiguredContinueOnError ==
  IF fileConfig.errorRecovery # Undefined
    THEN fileConfig.errorRecovery[1].continueOnError
    ELSE Undefined

\* C32: when --continue-on-error is not on the command line, the batch run
\* uses the errorRecovery.continueOnError value of the configuration, and with
\* the value true a run is not aborted by a failed file.
C32_ConfigDecidesPolicy ==
  (/\ pc # "idle"
   /\ ~hasFlag(argv, "--continue-on-error")
   /\ ConfiguredContinueOnError # Undefined) =>
     /\ options.continueOnError = ConfiguredContinueOnError[1]
     /\ continueOnError = ConfiguredContinueOnError[1]
     /\ ConfiguredContinueOnError = Some(TRUE) => pc # "failed"

\* the files the loaded checkpoint records with the status 'error'; the
\* checkpoints found at the first start record none, so a loaded checkpoint
\* that covers the whole enumeration and records one was left by the
\* preceding run, which went on after the failure and returned
PreviouslyFailed ==
  IF savedState = Undefined THEN {}
  ELSE {f \in DOMAIN savedState[1].processed : savedState[1].processed[f] = "error"}
PreviousRunCompletedWithFailure ==
  /\ runs > 1
  /\ savedState # Undefined
  /\ DOMAIN savedState[1].processed = DOMAIN imageFiles
  /\ PreviouslyFailed # {}
ProcessedNow(f) ==
  \E j \in DOMAIN trace : trace[j].file = f /\ trace[j].result = "processed"

\* C33: a run with --resume that follows a run which completed under
\* continue-on-error with a failed file keeps the checkpoint and the error
\* log as long as a file that failed has not been processed successfully.
C33_ErrorVisibilitySurvivesResume ==
  (/\ pc = "done"
   /\ options.resumeFlag
   /\ PreviousRunCompletedWithFailure
   /\ \E f \in PreviouslyFailed : ~ProcessedNow(f)) =>
     /\ stateFile.kind # "absent"
     /\ errorLogExists

\* the number of leading files of the enumeration the job has finished after
\* this step: the files the run it resumed from had finished and the files
\* this run has finished
FinishedByJob == startIndex' + i'

\* C34: the progress.processed value of every checkpoint a batch run writes
\* is at most the number of leading files of the enumeration the job has
\* finished, with or without --resume and whatever checkpoint the run found.
C34_NeverOverstates ==
  [][CheckpointWritten => WrittenProgress.processed <= FinishedByJob]_vars

\* the same for the runs started with --resume only
C34_ResumedNeverOverstates ==
  [][(CheckpointWritten /\ options'.resumeFlag) =>
       WrittenProgress.processed <= FinishedByJob]_vars

\* the ledger records the checkpoint file does not hold
Unsaved ==
  {f \in DOMAIN processedFiles :
     f \notin DOMAIN stateFile.processed \/ stateFile.processed[f] # processedFiles[f]}

\* C35: under continue-on-error, right after the 1st, 11th, 21st, ... visited
\* file the checkpoint file holds the current ledger, and between files the
\* ledger never holds more than 9 records the checkpoint file lacks.
C35_CheckpointCadence ==
  (pc = "loop" /\ options.continueOnError) =>
    /\ (i % CheckpointEvery = 1 =>
          /\ stateFile.kind = "v1"
          /\ stateFile.processed = processedFiles)
    /\ Cardinality(Unsaved) <= CheckpointEvery - 1

\* ten files visited, with both kinds of outcome among them: nine records
\* wait for the checkpoint of the eleventh file
C35_Witness ==
  /\ pc = "loop"
  /\ options.continueOnError
  /\ i = CheckpointEvery
  /\ Cardinality(Unsaved) = CheckpointEvery - 1
  /\ \E f \in Unsaved : processedFiles[f] = "error"
  /\ \E f \in Unsaved : processedFiles[f] = "processed"

\* the eleventh file has been visited and the second checkpoint written
C35_SecondCheckpoint ==
  /\ pc = "loop"
  /\ options.continueOnError
  /\ i = CheckpointEvery + 1
  /\ Cardinality(DOMAIN stateFile.processed) = CheckpointEvery + 1
  /\ SomeFileFailed

SpecStatuses == {"success", "failed", "skipped"}

\* C36: every record a batch run puts in the ledger, and every entry of
\* files.processed in a checkpoint it writes, has a status in
\* {success, failed, skipped}.
C36_StatusDomain ==
  [][/\ (FileVisited /\ Visited.recorded) =>
          processedFiles'[Visited.file] \in SpecStatuses
     /\ CheckpointWritten =>
          \A f \in DOMAIN stateFile'.processed :
            stateFile'.processed[f] \in SpecStatuses]_vars

\* the sum of the run's counters
StatsTotal ==
  stats.processed + stats.skipped + stats.errors + stats.lfsPointers + stats.lfsErrors

\* C37: when processImages returns under continue-on-error the five
\* counters add up to the number of files visited, also when the checkpoint
\* file or the error log could not be written during an iteration.
C37_StatsPartition ==
  (pc = "done" /\ options.continueOnError) => StatsTotal = Len(trace)

\* ------------------------------------------------------------------------
\* The error log
\* ------------------------------------------------------------------------
IsPrefix(a, b) == Len(a) <= Len(b) /\ SubSeq(b, 1, Len(a)) = a

\* this step made log calls whose appends to the file failed
AppendFailed == Len(errors') > Len(errors) /\ errorLogFile' = errorLogFile
\* this step logged the error of a checkpoint write
SaveThrew ==
  \E k \in Len(errors) + 1 .. Len(errors') : errors'[k].error = WriteError
\* this step ran the iteration's catch block
IterationCaught == stats'.errors > stats.errors + 1 \/ StatsTotal' > StatsTotal + 1

\* C38: a step that does not clear the log keeps the entries already in the
\* in-memory list and in the file and adds new ones at the end; a failed
\* append is not thrown into the iteration, which counts its file once and
\* goes on; the list is emptied and the file deleted only by clear().
C38_AppendOnly ==
  [][/\ ~clearCalled' =>
          /\ IsPrefix(errors, errors')
          /\ IsPrefix(errorLogFile, errorLogFile')
          /\ errorLogExists => errorLogExists'
     /\ (AppendFailed /\ options.continueOnError /\ ~SaveThrew) =>
          /\ ~IterationCaught
          /\ pc' = "loop"
     /\ (clearCalled' /\ ~clearCalled) =>
          /\ errors' = <<>>
          /\ ~errorLogExists']_vars

\* a run that went on after two log calls whose appends both failed: the
\* list holds both entries in order, the file none
C38_Witness ==
  /\ pc = "done"
  /\ options.continueOnError
  /\ Len(errors) = 2
  /\ errors[1].file = 1
  /\ errors[2].file = 2
  /\ errorLogFile = <<>>
  /\ ~errorLogExists
  /\ StatsTotal = Len(trace)

\* ------------------------------------------------------------------------
\* Successive checkpoints
\* ------------------------------------------------------------------------
\* this step belongs to one manager: no new process starts and clearState
\* is not called
SameLedger == runs' = runs /\ ~(clearCalled' /\ ~clearCalled)
SavedPaths(file) == DOMAIN file.processed

\* C39: between loadState and clearState the ledger only gains paths, and a
\* checkpoint written over an earlier one has a progress.processed that is
\* not smaller and a files.processed that holds every path of the earlier
\* one.
C39_MonotoneCheckpoints ==
  [][/\ SameLedger => DOMAIN processedFiles \subseteq DOMAIN processedFiles'
     /\ (CheckpointWritten /\ stateFile.kind = "v1") =>
          /\ WrittenProgress.processed >= stateFile.progress[1].processed
          /\ SavedPaths(stateFile) \subseteq SavedPaths(stateFile')]_vars

\* a run from the first file that went on after a failure: its last
\* checkpoint holds the three files, its first one held the first file
C39_Witness ==
  /\ pc = "done"
  /\ startIndex = 0
  /\ savedState = Undefined
  /\ ~clearCalled
  /\ Len(trace) = 3
  /\ stateFile.kind = "v1"
  /\ stateFile.progress[1].processed = 3
  /\ SavedPaths(stateFile) = {1, 2, 3}

====
